---- MODULE Spec2Model ----
(***************************************************************************)
(* SysVista web viewer: the graph adapter (buildGraph, buildFlowGraph),    *)
(* the graph analytics (classifyComponents, detectHubs), the loader's      *)
(* validate and the hook's traceWorkflow.                                  *)
(*                                                                         *)
(* Representation.                                                         *)
(*  - ids, edge labels, payload types, colours and error messages are      *)
(*    strings; a missing optional string field is Undefined.               *)
(*  - strings the code inspects character by character (a component's      *)
(*    name, http_path and source file, and the cluster labels made from    *)
(*    them) are sequences of one-character strings; null/undefined there   *)
(*    is NullStr.                                                          *)
(*  - a JavaScript Map is the sequence of its entries in insertion order;  *)
(*    a Set is the sequence of its members in insertion order.             *)
(*  - node positions come from the dagre layout library and are not        *)
(*    modelled; everything else a node or an edge carries is.              *)
(***************************************************************************)
EXTENDS Integers, Sequences, FiniteSets, TLC

VARIABLES
    callArgs,   \* the function under call and its arguments
    callRet,    \* Pending until the call has returned, then its result
    hook,       \* useGraphData: the hook's state, one field per useState
    fuse,       \* search.ts: the components the search index was built from, or null
    app         \* AppInner: the component's own state, one field per useState

viewerVars == <<hook, fuse, app>>

vars == <<callArgs, callRet, viewerVars>>

\* callRet before and after the call returns
Pending == [done |-> FALSE]

Returned(v) == [done |-> TRUE, value |-> v]

----------------------------------------------------------------------------
(* JavaScript values *)

Undefined == "<undefined>"

NullStr == <<"<null>">>

\* truthiness of an optional string: undefined and "" are falsy
Truthy(s) == s # Undefined /\ s # ""

\* truthiness of an optional character string: null, undefined and "" are falsy
TruthyStr(cs) == cs # NullStr /\ cs # <<>>

Range(s) == {s[i] : i \in DOMAIN s}

Includes(s, x) == \E i \in DOMAIN s : s[i] = x

RECURSIVE StrOf(_)
StrOf(cs) == IF cs = <<>> THEN "" ELSE Head(cs) \o StrOf(Tail(cs))

RECURSIVE Join(_, _)
Join(ss, sep) ==
    IF ss = <<>> THEN ""
    ELSE IF Len(ss) = 1 THEN ss[1]
    ELSE ss[1] \o sep \o Join(Tail(ss), sep)

\* Map: entries [key, value] in insertion order
MapIndex(m, k) ==
    IF \E i \in DOMAIN m : m[i].key = k
    THEN CHOOSE i \in DOMAIN m : m[i].key = k
    ELSE 0

MapHas(m, k) == MapIndex(m, k) # 0

MapGetOr(m, k, dflt) == IF MapHas(m, k) THEN m[MapIndex(m, k)].value ELSE dflt

MapSet(m, k, v) ==
    IF MapHas(m, k)
    THEN [m EXCEPT ![MapIndex(m, k)] = [key |-> k, value |-> v]]
    ELSE Append(m, [key |-> k, value |-> v])

MapKeys(m) == [i \in DOMAIN m |-> m[i].key]

MapValues(m) == [i \in DOMAIN m |-> m[i].value]

\* TRUE of every list.  TLC evaluates an operator's argument when it is first
\* used, so a loop that passes its accumulator on untested builds a chain of
\* pending steps as long as its input; testing Computed(acc) before the next
\* step keeps each step's evaluation separate.
Computed(acc) == Len(acc) >= 0

\* Set.add
SetAdd(s, x) == IF Includes(s, x) THEN s ELSE Append(s, x)

----------------------------------------------------------------------------
(* Constants of the program *)

ALL_KINDS == <<"model", "service", "transport", "transform">>

FLOW_LABELS ==
    {"handles", "persists", "transforms", "consumes", "produces", "calls", "dispatches"}

PAYLOAD_LABELS == {"consumes", "produces"}

MAX_DAGRE_EDGES == 2000

OtherCluster == <<"O", "t", "h", "e", "r">>

----------------------------------------------------------------------------
(* String helpers (character sequences) *)

LowerCaseLetters ==
    <<"a", "b", "c", "d", "e", "f", "g", "h", "i", "j", "k", "l", "m",
      "n", "o", "p", "q", "r", "s", "t", "u", "v", "w", "x", "y", "z">>

UpperCaseLetters ==
    <<"A", "B", "C", "D", "E", "F", "G", "H", "I", "J", "K", "L", "M",
      "N", "O", "P", "Q", "R", "S", "T", "U", "V", "W", "X", "Y", "Z">>

IsLower(c) == Includes(LowerCaseLetters, c)

IsUpper(c) == Includes(UpperCaseLetters, c)

\* String.prototype.toUpperCase on one character
ToUpperCase(c) ==
    IF IsLower(c)
    THEN UpperCaseLetters[CHOOSE i \in DOMAIN LowerCaseLetters : LowerCaseLetters[i] = c]
    ELSE c

\* String.prototype.split(sep): "" splits to [""], "/a" to ["", "a"]
RECURSIVE SplitAcc(_, _, _, _)
SplitAcc(rest, sep, cur, done) ==
    IF rest = <<>> THEN Append(done, cur)
    ELSE IF Head(rest) = sep
         THEN SplitAcc(Tail(rest), sep, <<>>, Append(done, cur))
         ELSE SplitAcc(Tail(rest), sep, Append(cur, Head(rest)), done)

Split(cs, sep) == SplitAcc(cs, sep, <<>>, <<>>)

StartsWith(cs, c) == Len(cs) >= 1 /\ cs[1] = c

\* the longest prefix of cs made of lower-case letters
RECURSIVE LowerRun(_)
LowerRun(cs) ==
    IF cs # <<>> /\ IsLower(Head(cs))
    THEN <<Head(cs)>> \o LowerRun(Tail(cs))
    ELSE <<>>

\* name.match(/^([A-Z][a-z]+)/): the capture, or NullStr without a match
MatchCamelWord(name) ==
    IF Len(name) >= 2 /\ IsUpper(name[1]) /\ IsLower(name[2])
    THEN <<name[1]>> \o LowerRun(Tail(name))
    ELSE NullStr

----------------------------------------------------------------------------
(* clustering.ts: classifyComponents *)

\* first meaningful path segment of a transport: "/sessions/{id}" -> "Sessions"
PathCluster(comp) ==
    IF comp.kind = "transport" /\ TruthyStr(comp.http_path)
    THEN LET segments ==
                 SelectSeq(Split(comp.http_path, "/"),
                           LAMBDA s : TruthyStr(s) /\ ~StartsWith(s, "{")
                                                   /\ ~StartsWith(s, ":"))
         IN IF Len(segments) > 0
            THEN <<ToUpperCase(segments[1][1])>> \o Tail(segments[1])
            ELSE NullStr
    ELSE NullStr

NameClusterAnyKind(comp, cluster) ==
    IF ~TruthyStr(cluster) THEN MatchCamelWord(comp.name) ELSE cluster

\* CamelCase first word of a model, transform or service
NameCluster(comp, cluster) ==
    IF ~TruthyStr(cluster) /\ comp.kind \in {"model", "transform", "service"}
    THEN MatchCamelWord(comp.name)
    ELSE cluster

\* fallback: the source directory name
DirCluster(comp, cluster) ==
    IF ~TruthyStr(cluster)
    THEN LET parts == Split(comp.source.file, "/")
         IN IF Len(parts) >= 2 THEN parts[Len(parts) - 1] ELSE cluster
    ELSE cluster

\* the label of one component before folding (cluster ?? "Other")
InitialCluster(comp) ==
    LET cluster == DirCluster(comp, NameCluster(comp, PathCluster(comp)))
    IN IF cluster = NullStr THEN OtherCluster ELSE cluster

\* the first loop: clusterMap.set(comp.id, cluster ?? "Other") per component
RECURSIVE LabelAll(_, _)
LabelAll(clusterMap, components) ==
    IF components = <<>> THEN clusterMap
    ELSE LET next == MapSet(clusterMap, Head(components).id,
                            InitialCluster(Head(components)))
         IN IF Computed(next) THEN LabelAll(next, Tail(components)) ELSE next

\* clusterCounts: how many entries of clusterMap carry each label
RECURSIVE CountClusters(_, _)
CountClusters(counts, values) ==
    IF values = <<>> THEN counts
    ELSE LET next == MapSet(counts, Head(values), MapGetOr(counts, Head(values), 0) + 1)
         IN IF Computed(next) THEN CountClusters(next, Tail(values)) ELSE next

FoldSmallClustersBelow2(clusterMap) ==
    LET clusterCounts == CountClusters(<<>>, MapValues(clusterMap))
    IN [i \in DOMAIN clusterMap |->
          IF MapGetOr(clusterCounts, clusterMap[i].value, 0) < 2
          THEN [key |-> clusterMap[i].key, value |-> OtherCluster]
          ELSE clusterMap[i]]

\* fold clusters with <3 members into "Other"
FoldSmallClusters(clusterMap) ==
    LET clusterCounts == CountClusters(<<>>, MapValues(clusterMap))
    IN [i \in DOMAIN clusterMap |->
          IF MapGetOr(clusterCounts, clusterMap[i].value, 0) < 3
          THEN [key |-> clusterMap[i].key, value |-> OtherCluster]
          ELSE clusterMap[i]]

ClassifyComponents(components) == FoldSmallClusters(LabelAll(<<>>, components))

----------------------------------------------------------------------------
(* clustering.ts: detectHubs *)

RECURSIVE InitDegrees(_, _)
InitDegrees(degreeMap, components) ==
    IF components = <<>> THEN degreeMap
    ELSE LET next == MapSet(degreeMap, Head(components).id, 0)
         IN IF Computed(next) THEN InitDegrees(next, Tail(components)) ELSE next

\* one edge adds 1 at from_id and then 1 at to_id (2 at the node of a self-loop)
CountEdge(degreeMap, e) ==
    LET afterFrom == MapSet(degreeMap, e.from_id, MapGetOr(degreeMap, e.from_id, 0) + 1)
    IN MapSet(afterFrom, e.to_id, MapGetOr(afterFrom, e.to_id, 0) + 1)

\* the loop over edges, in order: the first half of the edges, then the rest
\* (Computed makes TLC finish the first half before it starts the rest)
RECURSIVE CountDegrees(_, _)
CountDegrees(degreeMap, edges) ==
    IF edges = <<>> THEN degreeMap
    ELSE IF Len(edges) = 1 THEN CountEdge(degreeMap, edges[1])
    ELSE LET half == Len(edges) \div 2
             firstHalf == CountDegrees(degreeMap, SubSeq(edges, 1, half))
         IN IF Computed(firstHalf)
            THEN CountDegrees(firstHalf, SubSeq(edges, half + 1, Len(edges)))
            ELSE firstHalf

DegreeMap(components, edges) == CountDegrees(InitDegrees(<<>>, components), edges)

RECURSIVE SumSeq(_)
SumSeq(s) == IF s = <<>> THEN 0 ELSE Head(s) + SumSeq(Tail(s))

(***************************************************************************)
(* degree > mean + k * stddev, in exact integer arithmetic.  With n the    *)
(* number of degrees, S their sum and Q the sum of (n*d_i - S)^2:          *)
(* mean = S/n, variance = Q/n^3, so the comparison is                      *)
(* n*d - S > k*sqrt(Q/n), that is n*d - S > 0 and n*(n*d - S)^2 > k^2*Q.   *)
(***************************************************************************)
ExceedsMeanPlus(degree, k, degrees) ==
    LET n == Len(degrees)
        S == SumSeq(degrees)
        Q == SumSeq([i \in DOMAIN degrees |-> (n * degrees[i] - S) * (n * degrees[i] - S)])
        X == n * degree - S
    IN X > 0 /\ n * X * X > k * k * Q

HubTierAtLeast(degree, degrees) ==
    LET n == Len(degrees)
        S == SumSeq(degrees)
        Q == SumSeq([i \in DOMAIN degrees |-> (n * degrees[i] - S) * (n * degrees[i] - S)])
        X == n * degree - S
    IN IF X >= 0 /\ n * X * X >= 4 * Q THEN "high"
       ELSE IF X >= 0 /\ n * X * X >= Q THEN "medium"
       ELSE "normal"

HubTierSwapped(degree, degrees) ==
    IF ExceedsMeanPlus(degree, 1, degrees) THEN "high"
    ELSE IF ExceedsMeanPlus(degree, 2, degrees) THEN "medium"
    ELSE "normal"

HubTierHighAsNormal(degree, degrees) ==
    IF ExceedsMeanPlus(degree, 2, degrees) THEN "normal"
    ELSE IF ExceedsMeanPlus(degree, 1, degrees) THEN "medium"
    ELSE "normal"

HubTier(degree, degrees) ==
    IF ExceedsMeanPlus(degree, 2, degrees) THEN "high"
    ELSE IF ExceedsMeanPlus(degree, 1, degrees) THEN "medium"
    ELSE "normal"

DetectHubs(components, edges) ==
    LET degreeMap == DegreeMap(components, edges)
        degrees == MapValues(degreeMap)
    IN IF Len(degrees) = 0 THEN <<>>
       ELSE [i \in DOMAIN degreeMap |->
               [key |-> degreeMap[i].key,
                value |-> [tier |-> HubTier(degreeMap[i].value, degrees),
                           degree |-> degreeMap[i].value]]]

----------------------------------------------------------------------------
(* graph-adapter.ts: edge merging *)

\* the edgeMap key `${e.from_id}->${e.to_id}`
EdgeKey(e) == e.from_id \o "->" \o e.to_id

EdgeIndex(edgeMap, key) ==
    IF \E i \in DOMAIN edgeMap : edgeMap[i].key = key
    THEN CHOOSE i \in DOMAIN edgeMap : edgeMap[i].key = key
    ELSE 0

\* the merged edge a raw edge starts: edgeMap.set(key, {...})
NewMerged(e) ==
    [key |-> EdgeKey(e), from_id |-> e.from_id, to_id |-> e.to_id,
     labels |-> IF Truthy(e.label) THEN <<e.label>> ELSE <<>>,
     payload_type |-> e.payload_type]

AbsorbLastPayload(existing, e) ==
    [existing EXCEPT
       !.labels = IF Truthy(e.label) /\ ~Includes(@, e.label) THEN Append(@, e.label) ELSE @,
       !.payload_type = IF Truthy(e.payload_type) THEN e.payload_type ELSE @]

AbsorbReplacingLabels(existing, e) ==
    [existing EXCEPT
       !.labels = IF Truthy(e.label) THEN <<e.label>> ELSE @,
       !.payload_type = IF Truthy(e.payload_type) /\ ~Truthy(@) THEN e.payload_type ELSE @]

\* a raw edge merged into the existing edge of its pair
Absorb(existing, e) ==
    [existing EXCEPT
       !.labels = IF Truthy(e.label) /\ ~Includes(@, e.label) THEN Append(@, e.label) ELSE @,
       !.payload_type = IF Truthy(e.payload_type) /\ ~Truthy(@) THEN e.payload_type ELSE @]

MergeEdgeKeepingFirstLabel(edgeMap, e) ==
    LET idx == EdgeIndex(edgeMap, EdgeKey(e))
    IN IF idx # 0 THEN edgeMap ELSE Append(edgeMap, NewMerged(e))

MergeEdgeNewestFirst(edgeMap, e) ==
    LET idx == EdgeIndex(edgeMap, EdgeKey(e))
    IN IF idx # 0
       THEN [edgeMap EXCEPT ![idx] = Absorb(@, e)]
       ELSE <<NewMerged(e)>> \o edgeMap

\* one iteration of the deduplication loop
MergeEdge(edgeMap, e) ==
    LET idx == EdgeIndex(edgeMap, EdgeKey(e))
    IN IF idx # 0
       THEN [edgeMap EXCEPT ![idx] = Absorb(@, e)]
       ELSE Append(edgeMap, NewMerged(e))

\* the loop over edges, in order: the first half of the edges, then the rest
\* (Computed makes TLC finish the first half before it starts the rest)
RECURSIVE MergeLoop(_, _)
MergeLoop(edgeMap, edges) ==
    IF edges = <<>> THEN edgeMap
    ELSE IF Len(edges) = 1 THEN MergeEdge(edgeMap, edges[1])
    ELSE LET half == Len(edges) \div 2
             firstHalf == MergeLoop(edgeMap, SubSeq(edges, 1, half))
         IN IF Computed(firstHalf)
            THEN MergeLoop(firstHalf, SubSeq(edges, half + 1, Len(edges)))
            ELSE firstHalf

\* uniqueEdges = [...edgeMap.values()]
MergeEdges(edges) == MergeLoop(<<>>, edges)

----------------------------------------------------------------------------
(* graph-adapter.ts: clusterGridLayout *)

\* clusters: Map cluster -> components, in order of first appearance
RECURSIVE GroupByCluster(_, _, _)
GroupByCluster(clusters, components, clusterMap) ==
    IF components = <<>> THEN clusters
    ELSE LET c == Head(components)
             cluster == MapGetOr(clusterMap, c.id, OtherCluster)
             next == MapSet(clusters, cluster, Append(MapGetOr(clusters, cluster, <<>>), c))
         IN IF Computed(next)
            THEN GroupByCluster(next, Tail(components), clusterMap)
            ELSE next

ClusterCmpSmallestFirst(a, b) ==
    IF a.key = OtherCluster THEN 1
    ELSE IF b.key = OtherCluster THEN -1
    ELSE Len(a.value) - Len(b.value)

\* the comparator of sortedClusters: largest first, "Other" last
ClusterCmp(a, b) ==
    IF a.key = OtherCluster THEN 1
    ELSE IF b.key = OtherCluster THEN -1
    ELSE Len(b.value) - Len(a.value)

\* Array.prototype.sort is stable: x goes after every element not greater than it
RECURSIVE InsertCluster(_, _)
InsertCluster(sorted, x) ==
    IF sorted = <<>> THEN <<x>>
    ELSE IF ClusterCmp(sorted[Len(sorted)], x) > 0
         THEN Append(InsertCluster(SubSeq(sorted, 1, Len(sorted) - 1), x), sorted[Len(sorted)])
         ELSE Append(sorted, x)

RECURSIVE SortClusters(_, _)
SortClusters(sorted, rest) ==
    IF rest = <<>> THEN sorted
    ELSE SortClusters(InsertCluster(sorted, Head(rest)), Tail(rest))

HubDegree(hubMap, id) ==
    IF MapHas(hubMap, id) THEN MapGetOr(hubMap, id, 0).degree ELSE 0

\* components of one cluster: hubs first (by degree desc), stable
RECURSIVE InsertByDegree(_, _, _)
InsertByDegree(sorted, x, hubMap) ==
    IF sorted = <<>> THEN <<x>>
    ELSE IF HubDegree(hubMap, x.id) - HubDegree(hubMap, sorted[Len(sorted)].id) > 0
         THEN Append(InsertByDegree(SubSeq(sorted, 1, Len(sorted) - 1), x, hubMap),
                     sorted[Len(sorted)])
         ELSE Append(sorted, x)

RECURSIVE SortByDegree(_, _, _)
SortByDegree(sorted, rest, hubMap) ==
    IF rest = <<>> THEN sorted
    ELSE LET next == InsertByDegree(sorted, Head(rest), hubMap)
         IN IF Computed(next) THEN SortByDegree(next, Tail(rest), hubMap) ELSE next

\* Math.max(4, Math.ceil(Math.sqrt(n / 2)))
GridCols(n) ==
    LET root == CHOOSE c \in 0..n : 2 * c * c >= n /\ \A b \in 0..(c - 1) : 2 * b * b < n
    IN IF root > 4 THEN root ELSE 4

CeilDiv(a, b) == (a + b - 1) \div b

\* positions.set(id, pos) for each cell in turn
RECURSIVE SetAll(_, _)
SetAll(m, entries) ==
    IF entries = <<>> THEN m
    ELSE LET next == MapSet(m, Head(entries).key, Head(entries).value)
         IN IF Computed(next) THEN SetAll(next, Tail(entries)) ELSE next

\* the placement loop: header node and cell positions of each cluster in turn
RECURSIVE PlaceClusters(_, _, _, _)
PlaceClusters(sortedClusters, cols, offsetY, acc) ==
    IF sortedClusters = <<>> THEN acc
    ELSE LET clusterName == Head(sortedClusters).key
             comps == Head(sortedClusters).value
             header == [id |-> "cluster-" \o StrOf(clusterName),
                        type |-> "clusterLabel",
                        position |-> [x |-> 0, y |-> offsetY],
                        data |-> [label |-> clusterName, count |-> Len(comps)],
                        selectable |-> FALSE, draggable |-> FALSE]
             cells == [i \in DOMAIN comps |->
                         [key |-> comps[i].id,
                          value |-> [x |-> ((i - 1) % cols) * 240,
                                     y |-> (offsetY + 50) + ((i - 1) \div cols) * 100]]]
             rows == CeilDiv(Len(comps), cols)
         IN IF Len(comps) = 0
            THEN PlaceClusters(Tail(sortedClusters), cols, offsetY, acc)
            ELSE PlaceClusters(Tail(sortedClusters), cols,
                               (offsetY + 50) + rows * 100 + 60,
                               [positions |-> SetAll(acc.positions, cells),
                                headerNodes |-> Append(acc.headerNodes, header)])

ClusterGridLayout(components, clusterMap, hubMap) ==
    LET clusters == GroupByCluster(<<>>, components, clusterMap)
        sortedClusters == SortClusters(<<>>, clusters)
        byDegree == [i \in DOMAIN sortedClusters |->
                       [key |-> sortedClusters[i].key,
                        value |-> SortByDegree(<<>>, sortedClusters[i].value, hubMap)]]
    IN PlaceClusters(byDegree, GridCols(Len(components)), 0,
                     [positions |-> <<>>, headerNodes |-> <<>>])

----------------------------------------------------------------------------
(* graph-adapter.ts: buildGraph *)

FilterByKind(components, activeKinds) ==
    SelectSeq(components, LAMBDA c : c.kind \in activeKinds)

IdsOf(components) == {components[i].id : i \in DOMAIN components}

VisibleEdgesOneEnd(edges, visibleIds) ==
    SelectSeq(edges, LAMBDA e : e.from_id \in visibleIds \/ e.to_id \in visibleIds)

\* edges with both ends among the visible components
VisibleEdges(edges, visibleIds) ==
    SelectSeq(edges, LAMBDA e : e.from_id \in visibleIds /\ e.to_id \in visibleIds)

\* the data of a component node: hub and cluster annotations with their defaults
NodeData(comp, clusterMap, hubMap) ==
    LET hub == MapGetOr(hubMap, comp.id, [tier |-> "normal", degree |-> 0])
    IN [component |-> comp, hubTier |-> hub.tier, degree |-> hub.degree,
        cluster |-> MapGetOr(clusterMap, comp.id, OtherCluster)]

\* e.labels.join(", "), with " [payload_type]" appended when there is one
EdgeLabelText(e) ==
    LET label == Join(e.labels, ", ")
    IN IF Truthy(e.payload_type) THEN label \o " [" \o e.payload_type \o "]" ELSE label

StyleEdgeCallsLast(e, i) ==
    LET isPayload == \E l \in Range(e.labels) : l \in PAYLOAD_LABELS
        isFlow == \E l \in Range(e.labels) : l \in FLOW_LABELS
        isCalls == Includes(e.labels, "calls")
        isDispatches == Includes(e.labels, "dispatches")
        label == EdgeLabelText(e)
        colours == IF isPayload THEN <<"#f472b6", "#f9a8d4">>
                   ELSE IF isDispatches THEN <<"#f59e0b", "#fcd34d">>
                   ELSE IF isCalls THEN <<"#22c55e", "#86efac">>
                   ELSE IF isFlow THEN <<"#06b6d4", "#67e8f9">>
                   ELSE <<"#6b7280", "#9ca3af">>
    IN [id |-> "e-" \o ToString(i), source |-> e.from_id, target |-> e.to_id,
        label |-> IF label # "" THEN label ELSE Undefined,
        animated |-> isFlow,
        zIndex |-> IF isPayload THEN 10 ELSE IF isCalls \/ isDispatches THEN 5 ELSE 0,
        style |-> [stroke |-> colours[1],
                   strokeWidthTenths |-> IF isPayload THEN 20
                                         ELSE IF isCalls \/ isDispatches THEN 15 ELSE 10],
        labelStyle |-> [fill |-> colours[2], fontSize |-> 10]]

\* the styled edge of merged edge e at index i (0-based); widths in tenths
StyleEdge(e, i) ==
    LET isPayload == \E l \in Range(e.labels) : l \in PAYLOAD_LABELS
        isFlow == \E l \in Range(e.labels) : l \in FLOW_LABELS
        isCalls == Includes(e.labels, "calls")
        isDispatches == Includes(e.labels, "dispatches")
        label == EdgeLabelText(e)
        colours == IF isPayload THEN <<"#f472b6", "#f9a8d4">>
                   ELSE IF isCalls THEN <<"#22c55e", "#86efac">>
                   ELSE IF isDispatches THEN <<"#f59e0b", "#fcd34d">>
                   ELSE IF isFlow THEN <<"#06b6d4", "#67e8f9">>
                   ELSE <<"#6b7280", "#9ca3af">>
    IN [id |-> "e-" \o ToString(i), source |-> e.from_id, target |-> e.to_id,
        label |-> IF label # "" THEN label ELSE Undefined,
        animated |-> isFlow,
        zIndex |-> IF isPayload THEN 10 ELSE IF isCalls \/ isDispatches THEN 5 ELSE 0,
        style |-> [stroke |-> colours[1],
                   strokeWidthTenths |-> IF isPayload THEN 20
                                         ELSE IF isCalls \/ isDispatches THEN 15 ELSE 10],
        labelStyle |-> [fill |-> colours[2], fontSize |-> 10]]

\* edges.sort(...): stable, payload (pink) edges after all the others
PayloadLast(edges) ==
    SelectSeq(edges, LAMBDA e : e.style.stroke # "#f472b6")
        \o SelectSeq(edges, LAMBDA e : e.style.stroke = "#f472b6")

BuildGraph(data, activeKinds) ==
    LET filteredComponents == FilterByKind(data.components, activeKinds)
        visibleIds == IdsOf(filteredComponents)
        filteredEdges == VisibleEdges(data.edges, visibleIds)
        uniqueEdges == MergeEdges(filteredEdges)
        clusterMap == ClassifyComponents(filteredComponents)
        hubMap == DetectHubs(filteredComponents, filteredEdges)
        grid == ClusterGridLayout(filteredComponents, clusterMap, hubMap)
        componentNodes ==
            IF Len(uniqueEdges) > MAX_DAGRE_EDGES
            THEN grid.headerNodes \o
                 [i \in DOMAIN filteredComponents |->
                    [id |-> filteredComponents[i].id,
                     type |-> filteredComponents[i].kind,
                     position |-> MapGetOr(grid.positions, filteredComponents[i].id,
                                           [x |-> 0, y |-> 0]),
                     data |-> NodeData(filteredComponents[i], clusterMap, hubMap)]]
            ELSE [i \in DOMAIN filteredComponents |->
                    [id |-> filteredComponents[i].id,
                     type |-> filteredComponents[i].kind,
                     data |-> NodeData(filteredComponents[i], clusterMap, hubMap)]]
        edges == [i \in DOMAIN uniqueEdges |-> StyleEdge(uniqueEdges[i], i - 1)]
    IN [nodes |-> componentNodes, edges |-> PayloadLast(edges)]

----------------------------------------------------------------------------
(* graph-adapter.ts: buildFlowGraph *)

StyleFlowEdge(e, i) ==
    LET isPayload == \E l \in Range(e.labels) : l \in PAYLOAD_LABELS
        isCalls == Includes(e.labels, "calls")
        isDispatches == Includes(e.labels, "dispatches")
        label == EdgeLabelText(e)
        colours == IF isPayload THEN <<"#f472b6", "#f9a8d4">>
                   ELSE IF isCalls THEN <<"#22c55e", "#86efac">>
                   ELSE IF isDispatches THEN <<"#f59e0b", "#fcd34d">>
                   ELSE <<"#06b6d4", "#67e8f9">>
    IN [id |-> "fe-" \o ToString(i), source |-> e.from_id, target |-> e.to_id,
        label |-> IF label # "" THEN label ELSE Undefined,
        animated |-> TRUE,
        zIndex |-> IF isPayload THEN 10 ELSE IF isCalls \/ isDispatches THEN 5 ELSE 0,
        style |-> [stroke |-> colours[1],
                   strokeWidthTenths |-> IF isPayload THEN 25
                                         ELSE IF isCalls \/ isDispatches THEN 20 ELSE 15],
        labelStyle |-> [fill |-> colours[2], fontSize |-> 10]]

\* data.edges.filter((e) => e.label && FLOW_LABELS.has(e.label))
FlowEdges(edges) ==
    SelectSeq(edges, LAMBDA e : Truthy(e.label) /\ e.label \in FLOW_LABELS)

EndpointIds(edges) ==
    {edges[i].from_id : i \in DOMAIN edges} \cup {edges[i].to_id : i \in DOMAIN edges}

FlowComponentsUnconnected(filteredComponents, uniqueEdges) == filteredComponents

\* re-filter: only the components that have at least one visible edge
ConnectedComponents(filteredComponents, uniqueEdges) ==
    SelectSeq(filteredComponents, LAMBDA c : c.id \in EndpointIds(uniqueEdges))

BuildFlowGraph(data, activeKinds) ==
    LET flowEdges == FlowEdges(data.edges)
        flowNodeIds == EndpointIds(flowEdges)
        filteredComponents ==
            SelectSeq(data.components,
                      LAMBDA c : c.kind \in activeKinds /\ c.id \in flowNodeIds)
        visibleIds == IdsOf(filteredComponents)
        uniqueEdges == MergeEdges(VisibleEdges(flowEdges, visibleIds))
        connectedComponents == ConnectedComponents(filteredComponents, uniqueEdges)
        hubMap == DetectHubs(connectedComponents, VisibleEdges(flowEdges, visibleIds))
        clusterMap == ClassifyComponents(connectedComponents)
        nodes == [i \in DOMAIN connectedComponents |->
                    [id |-> connectedComponents[i].id,
                     type |-> connectedComponents[i].kind,
                     data |-> NodeData(connectedComponents[i], clusterMap, hubMap)
                                 @@ [direction |-> "LR"]]]
        edges == [i \in DOMAIN uniqueEdges |-> StyleFlowEdge(uniqueEdges[i], i - 1)]
    IN [nodes |-> nodes, edges |-> PayloadLast(edges)]

----------------------------------------------------------------------------
(* loader.ts: validate *)

(***************************************************************************)
(* A parsed JSON value is a record with its JavaScript type: null,         *)
(* a boolean carries b, a number n, a string s; an array its items; an     *)
(* object carries fields, a function from its own property names to        *)
(* values.  JsUndefined is what reading a missing property gives.          *)
(***************************************************************************)
JsUndefined == [type |-> "undefined"]

JsNull == [type |-> "null"]

JsArray(items) == [type |-> "array", items |-> items]

JsObject(fields) == [type |-> "object", fields |-> fields]

\* !v is false
JsTruthy(v) ==
    CASE v.type \in {"undefined", "null"} -> FALSE
      [] v.type = "boolean" -> v.b
      [] v.type = "number" -> v.n # 0
      [] v.type = "string" -> v.s # ""
      [] OTHER -> TRUE

\* typeof v === "object"
TypeofObject(v) == v.type \in {"null", "array", "object"}

\* obj.name on a value that passed the two tests before it
GetField(v, name) ==
    IF v.type = "object" /\ name \in DOMAIN v.fields THEN v.fields[name] ELSE JsUndefined

IsArray(v) == v.type = "array"

InvalidMessage == "Invalid SysVista JSON: missing required fields (components, edges)"

ValidateComponentsOnly(data) ==
    IF ~JsTruthy(data) \/ ~TypeofObject(data) \/ ~IsArray(GetField(data, "components"))
    THEN [threw |-> TRUE, message |-> InvalidMessage]
    ELSE [threw |-> FALSE, value |-> data]

ValidateNonEmpty(data) ==
    IF \/ ~JsTruthy(data)
       \/ ~TypeofObject(data)
       \/ ~IsArray(GetField(data, "components"))
       \/ ~IsArray(GetField(data, "edges"))
       \/ GetField(data, "components").items = <<>>
    THEN [threw |-> TRUE, message |-> InvalidMessage]
    ELSE [threw |-> FALSE, value |-> data]

\* returns its argument, or throws Error(InvalidMessage)
Validate(data) ==
    IF \/ ~JsTruthy(data)
       \/ ~TypeofObject(data)
       \/ ~IsArray(GetField(data, "components"))
       \/ ~IsArray(GetField(data, "edges"))
    THEN [threw |-> TRUE, message |-> InvalidMessage]
    ELSE [threw |-> FALSE, value |-> data]

----------------------------------------------------------------------------
(* useGraphData.ts: traceWorkflow *)

NoSchema == [isNull |-> TRUE]

IsNoSchema(schema) == "isNull" \in DOMAIN schema

FlowEdgeId(i) == "flow-" \o ToString(i)

NeighborForwardOnly(e, current) ==
    IF e.from_id = current THEN e.to_id ELSE Undefined

\* the other end of e when e touches current, else null
Neighbor(e, current) ==
    IF e.from_id = current THEN e.to_id
    ELSE IF e.to_id = current THEN e.from_id
    ELSE Undefined

TraceVisitNewOnly(st, e, i, current) ==
    LET neighbor == Neighbor(e, current)
    IN IF Truthy(neighbor) /\ ~Includes(st.nodeIds, neighbor)
       THEN [nodeIds |-> Append(st.nodeIds, neighbor),
             edgeIds |-> SetAdd(st.edgeIds, FlowEdgeId(i - 1)),
             queue |-> Append(st.queue, neighbor)]
       ELSE st

\* the body of the for loop for flowEdges[i] (i from 1 here, 0 in the code)
TraceVisit(st, e, i, current) ==
    LET neighbor == Neighbor(e, current)
    IN IF Truthy(neighbor) /\ ~Includes(st.nodeIds, neighbor)
       THEN [nodeIds |-> Append(st.nodeIds, neighbor),
             edgeIds |-> SetAdd(st.edgeIds, FlowEdgeId(i - 1)),
             queue |-> Append(st.queue, neighbor)]
       ELSE IF Truthy(neighbor)
            THEN [st EXCEPT !.edgeIds = SetAdd(@, FlowEdgeId(i - 1))]
            ELSE st

RECURSIVE TraceScan(_, _, _, _)
TraceScan(st, flowEdges, i, current) ==
    IF i > Len(flowEdges) THEN st
    ELSE TraceScan(TraceVisit(st, flowEdges[i], i, current), flowEdges, i + 1, current)

\* while (queue.length > 0) { current = queue.shift(); for ... }
RECURSIVE TraceLoop(_, _)
TraceLoop(st, flowEdges) ==
    IF st.queue = <<>> THEN st
    ELSE TraceLoop(TraceScan([st EXCEPT !.queue = Tail(@)], flowEdges, 1, Head(st.queue)),
                   flowEdges)

TraceWorkflow(schema, componentId) ==
    IF IsNoSchema(schema) THEN [nodeIds |-> <<>>, edgeIds |-> <<>>]
    ELSE LET st == TraceLoop([nodeIds |-> <<componentId>>, edgeIds |-> <<>>,
                              queue |-> <<componentId>>],
                             FlowEdges(schema.edges))
         IN [nodeIds |-> st.nodeIds, edgeIds |-> st.edgeIds]

\* the hook's other copy (src/unnamed/part_001) keeps a FLOW_LABELS of its own
FLOW_LABELS_part_001 == {"handles", "persists", "transforms", "consumes", "produces"}

\* traceWorkflow of that copy: the same loop over the edges its own set lets through
TraceWorkflow_part_001(schema, componentId) ==
    IF IsNoSchema(schema) THEN [nodeIds |-> <<>>, edgeIds |-> <<>>]
    ELSE LET st == TraceLoop([nodeIds |-> <<componentId>>, edgeIds |-> <<>>,
                              queue |-> <<componentId>>],
                             SelectSeq(schema.edges,
                                       LAMBDA e : Truthy(e.label)
                                                  /\ e.label \in FLOW_LABELS_part_001))
         IN [nodeIds |-> st.nodeIds, edgeIds |-> st.edgeIds]

----------------------------------------------------------------------------
(* Inputs *)

MaxGraphEdges == 2

MaxPayloadEdges == 3

MaxHubComponents == 7

MaxHubEdges == 3

MaxClusterComponents == 4

MaxTraceEdges == 3

SeqsUpTo(S, n) == UNION {[1..k -> S] : k \in 0..n}

\* a component as the scanner writes it (fields no function here reads are left out)
Component(id, kind, name, path, file) ==
    [id |-> id, kind |-> kind, name |-> name, http_path |-> path,
     source |-> [file |-> file]]

Edge(from, to, label) ==
    [from_id |-> from, to_id |-> to, label |-> label, payload_type |-> Undefined]

\* documents for buildGraph and buildFlowGraph: one transport, one service, one model
GraphComponents ==
    <<Component("c1", "transport", <<"r">>, <<"/", "u">>, <<"a", "/", "r">>),
      Component("c2", "service", <<"U", "s">>, NullStr, <<"a", "/", "s">>),
      Component("c3", "model", <<"U", "m">>, NullStr, <<"m">>)>>

\* "c9" is the id of no component
GraphPairs ==
    {<<"c1", "c2">>, <<"c2", "c1">>, <<"c2", "c3">>, <<"c1", "c1">>, <<"c3", "c9">>}

GraphLabels ==
    {Undefined, "imports", "references", "handles", "calls", "dispatches", "produces"}

GraphEdgePool == {Edge(p[1], p[2], l) : p \in GraphPairs, l \in GraphLabels}

GraphInputs ==
    [fn : {"buildGraph", "buildFlowGraph"},
     data : [components : {GraphComponents},
             edges : SeqsUpTo(GraphEdgePool, MaxGraphEdges)],
     activeKinds : SUBSET Range(ALL_KINDS)]

\* a raw edge that carries a payload type
EdgeWith(from, to, label, payload) ==
    [from_id |-> from, to_id |-> to, label |-> label, payload_type |-> payload]

\* documents whose edges carry payload types (absent, empty, or a type name)
PayloadPairs == {<<"c1", "c2">>, <<"c2", "c1">>}

PayloadLabels == {Undefined, "imports", "produces"}

PayloadTypes == {Undefined, "", "Order", "User"}

PayloadEdgePool ==
    {EdgeWith(p[1], p[2], l, t) : p \in PayloadPairs, l \in PayloadLabels, t \in PayloadTypes}

PayloadInputs ==
    [fn : {"buildGraph", "buildFlowGraph"},
     data : [components : {GraphComponents},
             edges : SeqsUpTo(PayloadEdgePool, MaxPayloadEdges)],
     activeKinds : {Range(ALL_KINDS)}]

\* dense documents for buildGraph: DenseSize components in four groups, listed
\* with the unlabelled ones first and the largest group last
DenseSize == 46

DenseComponent(i) ==
    IF i <= 2 THEN Component("d" \o ToString(i), "model", <<"x">>, NullStr, <<"m">>)
    ELSE IF i <= 5 THEN Component("d" \o ToString(i), "service", <<"A", "a">>, NullStr, <<"s">>)
    ELSE IF i <= 9 THEN Component("d" \o ToString(i), "service", <<"B", "b">>, NullStr, <<"s">>)
    ELSE Component("d" \o ToString(i), "transport", <<"r">>, <<"/", "u">>, <<"a", "/", "r">>)

DenseComponents == [i \in 1..DenseSize |-> DenseComponent(i)]

\* the k-th (0-based) ordered pair of components, the last component first
DenseEdge(k) ==
    Edge("d" \o ToString(DenseSize - (k \div DenseSize)),
         "d" \o ToString(DenseSize - (k % DenseSize)), "imports")

\* n distinct pairs, then extra raw edges that repeat the first pair
DenseEdges(n, extra) ==
    [k \in 1..(n + extra) |-> IF k <= n THEN DenseEdge(k - 1) ELSE DenseEdge(0)]

DenseInputs ==
    {[fn |-> "buildGraph",
      data |-> [components |-> DenseComponents, edges |-> DenseEdges(c[1], c[2])],
      activeKinds |-> Range(ALL_KINDS)] :
        c \in {<<MAX_DAGRE_EDGES, 0>>, <<MAX_DAGRE_EDGES, 1>>, <<MAX_DAGRE_EDGES + 1, 0>>}}

\* inputs of clusterGridLayout: up to MaxGridComponents components, each with or
\* without an entry in the cluster map and in the hub map
MaxGridComponents == 3

GridIds == [i \in 1..(MaxGridComponents + 1) |-> "g" \o ToString(i)]

GridComponents(n) ==
    [i \in 1..n |-> Component(GridIds[i], "service", <<"S">>, NullStr, <<"s">>)]

NoEntry == [has |-> FALSE]

GridClusterChoices ==
    {NoEntry} \cup {[has |-> TRUE, v |-> c] : c \in {<<"X">>, <<"Y">>}}

GridHubChoices ==
    {NoEntry, [has |-> TRUE, v |-> [tier |-> "normal", degree |-> 1]]}

\* the Map with the entry chosen for each component that has one
MapOfChoices(choices) ==
    LET all == [i \in DOMAIN choices |-> [key |-> GridIds[i], choice |-> choices[i]]]
        present == SelectSeq(all, LAMBDA e : e.choice.has)
    IN [i \in DOMAIN present |-> [key |-> present[i].key, value |-> present[i].choice.v]]

GridInputs ==
    UNION {{[fn |-> "clusterGridLayout", components |-> GridComponents(n),
             clusterMap |-> MapOfChoices(cs), hubMap |-> MapOfChoices(hs)] :
               cs \in [1..n -> GridClusterChoices], hs \in [1..n -> GridHubChoices]} :
           n \in 0..MaxGridComponents}

\* buildGraph on both sides of MAX_DAGRE_EDGES: the dense documents and small ones
GridGraphInputs ==
    DenseInputs
        \cup [fn : {"buildGraph"},
              data : [components : {GraphComponents}, edges : SeqsUpTo(GraphEdgePool, 1)],
              activeKinds : {Range(ALL_KINDS)}]

\* inputs of detectHubs: the first n of up to MaxHubComponents components
HubIds == [i \in 1..(MaxHubComponents + 1) |-> "h" \o ToString(i)]

HubComponents(n) ==
    [i \in 1..n |-> Component(HubIds[i], "service", <<"S">>, NullStr, <<"s">>)]

\* "h0" is the id of no component
HubPairs ==
    {<<"h1", "h2">>, <<"h2", "h1">>, <<"h1", "h3">>, <<"h2", "h3">>,
     <<"h1", "h1">>, <<"h1", "h0">>}

HubEdgePool == {Edge(p[1], p[2], Undefined) : p \in HubPairs}

HubInputs ==
    [fn : {"detectHubs"},
     components : {HubComponents(n) : n \in 0..MaxHubComponents},
     edges : SeqsUpTo(HubEdgePool, MaxHubEdges)]

\* inputs of classifyComponents: what each rule reads, per component
ClusterTemplates ==
    {[kind |-> "transport", name |-> <<"g">>, path |-> <<"/", "u", "x", "/", "{", "i", "}">>,
      file |-> <<"a", "/", "r">>],
     [kind |-> "transport", name |-> <<"g">>, path |-> <<"/", ":", "i", "/", "u", "x">>,
      file |-> <<"a", "/", "r">>],
     [kind |-> "transport", name |-> <<"U", "x">>, path |-> <<"/", "{", "i", "}">>,
      file |-> <<"a", "/", "r">>],
     [kind |-> "transport", name |-> <<"w">>, path |-> NullStr, file |-> <<"r">>],
     [kind |-> "model", name |-> <<"U", "x", "Y">>, path |-> NullStr, file |-> <<"m">>],
     [kind |-> "model", name |-> <<"U", "X">>, path |-> NullStr, file |-> <<"m">>],
     [kind |-> "service", name |-> <<"u", "x">>, path |-> NullStr,
      file |-> <<"b", "/", "U", "x", "/", "s">>],
     [kind |-> "transform", name |-> <<"t", "o">>, path |-> NullStr, file |-> <<"/", "t">>]}

ClusterIds == [i \in 1..(MaxClusterComponents + 1) |-> "k" \o ToString(i)]

ClusterComponents(ts) ==
    [i \in DOMAIN ts |-> Component(ClusterIds[i], ts[i].kind, ts[i].name, ts[i].path, ts[i].file)]

ClusterInputs ==
    [fn : {"classifyComponents"},
     components : {ClusterComponents(ts) : ts \in SeqsUpTo(ClusterTemplates, MaxClusterComponents)}]

\* inputs of validate: what JSON.parse can return
EmptyObject == JsObject([n \in {} |-> JsNull])

JsFieldValues ==
    {JsUndefined, JsNull, JsArray(<<>>), JsArray(<<EmptyObject>>),
     [type |-> "string", s |-> "x"], EmptyObject}

JsObjects ==
    {JsObject([n \in names |-> f[n]]) :
        names \in SUBSET {"components", "edges", "workflows"},
        f \in [{"components", "edges", "workflows"} -> JsFieldValues \ {JsUndefined}]}

JsValues ==
    {JsNull, JsArray(<<>>), JsArray(<<EmptyObject>>),
     [type |-> "boolean", b |-> FALSE], [type |-> "boolean", b |-> TRUE],
     [type |-> "number", n |-> 0], [type |-> "number", n |-> 7],
     [type |-> "string", s |-> ""], [type |-> "string", s |-> "x"]}
        \cup JsObjects

ValidateInputs == [fn : {"validate"}, data : JsValues]

\* a document with nothing in it, as the scanner writes it and as JSON.parse reads it
EmptyDocument == [components |-> <<>>, edges |-> <<>>, workflows |-> <<>>]

EmptyJsDocument ==
    JsObject([n \in {"components", "edges", "workflows"} |-> JsArray(<<>>)])

\* inputs of every stage, the empty ones among them: zero or one component, edge
StageInputs ==
    [fn : {"detectHubs"},
     components : {HubComponents(n) : n \in 0..1},
     edges : SeqsUpTo(HubEdgePool, 1)]
        \cup [fn : {"classifyComponents"},
              components : {ClusterComponents(ts) : ts \in SeqsUpTo(ClusterTemplates, 1)}]
        \cup [fn : {"buildGraph", "buildFlowGraph"},
              data : [components : {<<>>, GraphComponents},
                      edges : SeqsUpTo(GraphEdgePool, 1),
                      workflows : {<<>>}],
              activeKinds : {Range(ALL_KINDS), {}}]
        \cup ValidateInputs

\* one document listed in two orders: the edges rotated and possibly reversed, the
\* components possibly reversed
MaxOrderEdges == 3

OrderComponents ==
    <<Component("o1", "service", <<"U", "s">>, NullStr, <<"s">>),
      Component("o2", "service", <<"U", "s">>, NullStr, <<"s">>),
      Component("o3", "service", <<"U", "s">>, NullStr, <<"s">>),
      Component("o4", "model", <<"O", "m">>, NullStr, <<"m">>)>>

OrderEdgePool ==
    {Edge("o1", "o2", "imports"), Edge("o1", "o2", "persists"), Edge("o2", "o1", "imports"),
     Edge("o1", "o3", "imports"), Edge("o1", "o4", "persists"), Edge("o3", "o3", "imports")}

OrderInputs ==
    [fn : {"analytics"},
     data : [components : {OrderComponents}, edges : SeqsUpTo(OrderEdgePool, MaxOrderEdges)],
     rotate : 0..(MaxOrderEdges - 1),
     reverse : BOOLEAN,
     reverseComponents : BOOLEAN]

Reversed(s) == [i \in DOMAIN s |-> s[Len(s) + 1 - i]]

Rotated(s, r) == [i \in DOMAIN s |-> s[((i - 1 + r) % Len(s)) + 1]]

\* the same components and the same edges in the other order
Reordered(args) ==
    LET rotated == Rotated(args.data.edges, args.rotate)
    IN [components |-> IF args.reverseComponents THEN Reversed(args.data.components)
                       ELSE args.data.components,
        edges |-> IF args.reverse THEN Reversed(rotated) ELSE rotated]

\* inputs of traceWorkflow: the hook's schema and the component to start from
\* (the hook traces from a selected node, and there is none before a document is loaded)
TraceIds == {"t1", "t2", "t3"}

TracePairs ==
    {<<"t1", "t2">>, <<"t2", "t1">>, <<"t2", "t3">>, <<"t3", "t2">>,
     <<"t1", "t1">>, <<"t3", "t3">>}

TraceLabels == {Undefined, "imports", "persists"}

TraceEdgePool == {Edge(p[1], p[2], l) : p \in TracePairs, l \in TraceLabels}

TraceComponents ==
    <<Component("t1", "transport", <<"r">>, <<"/", "u">>, <<"a", "/", "r">>),
      Component("t2", "service", <<"U", "s">>, NullStr, <<"a", "/", "s">>),
      Component("t3", "model", <<"U", "m">>, NullStr, <<"m">>)>>

TraceInputs ==
    [fn : {"traceWorkflow"},
     schema : [components : {TraceComponents},
               edges : SeqsUpTo(TraceEdgePool, MaxTraceEdges)],
     componentId : TraceIds]

----------------------------------------------------------------------------
(* Calls *)

\* null of a state value that is an object otherwise
Null == [isNull |-> TRUE]

\* the viewer as useGraphData and AppInner construct it (the useState initial values)
ViewerConstructed ==
    /\ hook = [schema |-> NoSchema,
               activeKinds |-> Range(ALL_KINDS),
               selectedNode |-> Null,
               searchQuery |-> "",
               searchResults |-> <<>>,
               selectedWorkflow |-> Null,
               viewMode |-> "graph"]
    /\ fuse = Null
    /\ app = [focusNodeId |-> Null, showWorkflowPanel |-> FALSE]

CallBuildGraph ==
    /\ callArgs.fn = "buildGraph"
    /\ ~callRet.done
    /\ callRet' = Returned(BuildGraph(callArgs.data, callArgs.activeKinds))
    /\ UNCHANGED <<callArgs, viewerVars>>

CallBuildFlowGraph ==
    /\ callArgs.fn = "buildFlowGraph"
    /\ ~callRet.done
    /\ callRet' = Returned(BuildFlowGraph(callArgs.data, callArgs.activeKinds))
    /\ UNCHANGED <<callArgs, viewerVars>>

CallClusterGridLayout ==
    /\ callArgs.fn = "clusterGridLayout"
    /\ ~callRet.done
    /\ callRet' = Returned(ClusterGridLayout(callArgs.components, callArgs.clusterMap,
                                             callArgs.hubMap))
    /\ UNCHANGED <<callArgs, viewerVars>>

\* what the viewer computes from one document: the cluster map, the hub map, and
\* the merged edges and the graph of buildGraph with every kind active
Analytics(data) ==
    [clusterMap |-> ClassifyComponents(data.components),
     hubMap |-> DetectHubs(data.components, data.edges),
     uniqueEdges |-> MergeEdges(VisibleEdges(data.edges, IdsOf(data.components))),
     graph |-> BuildGraph(data, Range(ALL_KINDS))]

\* the analytics of a document and of the same document listed in another order
CallAnalytics ==
    /\ callArgs.fn = "analytics"
    /\ ~callRet.done
    /\ callRet' = Returned([first |-> Analytics(callArgs.data),
                            second |-> Analytics(Reordered(callArgs))])
    /\ UNCHANGED <<callArgs, viewerVars>>

CallDetectHubs ==
    /\ callArgs.fn = "detectHubs"
    /\ ~callRet.done
    /\ callRet' = Returned(DetectHubs(callArgs.components, callArgs.edges))
    /\ UNCHANGED <<callArgs, viewerVars>>

CallClassifyComponents ==
    /\ callArgs.fn = "classifyComponents"
    /\ ~callRet.done
    /\ callRet' = Returned(ClassifyComponents(callArgs.components))
    /\ UNCHANGED <<callArgs, viewerVars>>

CallValidate ==
    /\ callArgs.fn = "validate"
    /\ ~callRet.done
    /\ callRet' = Returned(Validate(callArgs.data))
    /\ UNCHANGED <<callArgs, viewerVars>>

CallTraceWorkflow ==
    /\ callArgs.fn = "traceWorkflow"
    /\ ~callRet.done
    /\ callRet' = Returned(TraceWorkflow(callArgs.schema, callArgs.componentId))
    /\ UNCHANGED <<callArgs, viewerVars>>

\* traceWorkflow step by step: callRet holds the locals while the call runs, and
\* shifted lists the ids that queue.shift() has returned so far
TraceRunning == ~callRet.done /\ "st" \in DOMAIN callRet

\* from the call to the first test of the while loop
TraceEnter ==
    /\ callArgs.fn = "traceWorkflow"
    /\ callRet = Pending
    /\ callRet' = IF IsNoSchema(callArgs.schema)
                  THEN Returned([nodeIds |-> <<>>, edgeIds |-> <<>>])
                  ELSE [done |-> FALSE,
                        st |-> [nodeIds |-> <<callArgs.componentId>>, edgeIds |-> <<>>,
                                queue |-> <<callArgs.componentId>>],
                        shifted |-> <<>>]
    /\ UNCHANGED <<callArgs, viewerVars>>

TraceIterateNoShift ==
    /\ TraceRunning
    /\ callRet.st.queue # <<>>
    /\ callRet' = [callRet EXCEPT
                     !.st = TraceScan(@, FlowEdges(callArgs.schema.edges), 1, Head(@.queue))]
    /\ UNCHANGED <<callArgs, viewerVars>>

\* one pass of the while loop: queue.shift(), then the for loop over flowEdges
TraceIterate ==
    /\ TraceRunning
    /\ callRet.st.queue # <<>>
    /\ callRet' = [callRet EXCEPT
                     !.st = TraceScan([@ EXCEPT !.queue = Tail(@)],
                                      FlowEdges(callArgs.schema.edges), 1, Head(@.queue)),
                     !.shifted = Append(@, Head(callRet.st.queue))]
    /\ UNCHANGED <<callArgs, viewerVars>>

\* the while test fails: return { nodeIds, edgeIds }
TraceReturn ==
    /\ TraceRunning
    /\ callRet.st.queue = <<>>
    /\ callRet' = Returned([nodeIds |-> callRet.st.nodeIds, edgeIds |-> callRet.st.edgeIds])
    /\ UNCHANGED <<callArgs, viewerVars>>

InitGraph == callArgs \in GraphInputs /\ callRet = Pending /\ ViewerConstructed

NextGraph == CallBuildGraph \/ CallBuildFlowGraph

SpecGraph == InitGraph /\ [][NextGraph]_vars

InitGrid ==
    callArgs \in (GridInputs \cup GridGraphInputs) /\ callRet = Pending /\ ViewerConstructed

NextGrid == CallClusterGridLayout \/ CallBuildGraph

SpecGrid == InitGrid /\ [][NextGrid]_vars

InitStages == callArgs \in StageInputs /\ callRet = Pending /\ ViewerConstructed

NextStages ==
    \/ CallValidate
    \/ CallClassifyComponents
    \/ CallDetectHubs
    \/ CallBuildGraph
    \/ CallBuildFlowGraph

SpecStages == InitStages /\ [][NextStages]_vars

InitOrder == callArgs \in OrderInputs /\ callRet = Pending /\ ViewerConstructed

NextOrder == CallAnalytics

SpecOrder == InitOrder /\ [][NextOrder]_vars

InitPayload == callArgs \in PayloadInputs /\ callRet = Pending /\ ViewerConstructed

SpecPayload == InitPayload /\ [][NextGraph]_vars

InitHubs == callArgs \in HubInputs /\ callRet = Pending /\ ViewerConstructed

NextHubs == CallDetectHubs

SpecHubs == InitHubs /\ [][NextHubs]_vars

InitClusters == callArgs \in ClusterInputs /\ callRet = Pending /\ ViewerConstructed

NextClusters == CallClassifyComponents

SpecClusters == InitClusters /\ [][NextClusters]_vars

InitValidate == callArgs \in ValidateInputs /\ callRet = Pending /\ ViewerConstructed

NextValidate == CallValidate

SpecValidate == InitValidate /\ [][NextValidate]_vars

InitTrace == callArgs \in TraceInputs /\ callRet = Pending /\ ViewerConstructed

NextTrace == CallTraceWorkflow

SpecTrace == InitTrace /\ [][NextTrace]_vars

NextTraceLoop == TraceEnter \/ TraceIterate \/ TraceReturn

SpecTraceLoop == InitTrace /\ [][NextTraceLoop]_vars

\* the call runs to completion once started: nothing else runs between its steps
SpecTraceLoopFair == SpecTraceLoop /\ WF_vars(NextTraceLoop)

----------------------------------------------------------------------------
(* The viewer: useGraphData's state and callbacks under AppInner's handlers *)

(***************************************************************************)
(* A prop a component reads is the hook value of the same name (the        *)
(* toolbar's viewMode, flowEdgeCount and workflowCount; the panels'        *)
(* workflows and selectedWorkflow).  Documents reach handleLoad from       *)
(* loadFromFile, so they have passed validate.                             *)
(***************************************************************************)
MaxSearchResults == 1

WorkflowStep(component_id, step_type, order) ==
    [component_id |-> component_id, step_type |-> step_type, order |-> order]

Workflow(id, steps) ==
    [id |-> id, name |-> id, entry_point_id |-> steps[1].component_id, steps |-> steps]

\* a workflow as the scanner numbers it, and two whose numbering is off
ViewerWorkflows ==
    {Workflow("w1", <<WorkflowStep("c1", "entry", 0), WorkflowStep("c2", "call", 1)>>),
     Workflow("w2", <<WorkflowStep("c1", "entry", 0), WorkflowStep("c2", "call", 0)>>),
     Workflow("w3", <<WorkflowStep("c2", "call", 1), WorkflowStep("c1", "entry", 2)>>)}

\* the labels of the documents' edges: the flow labels, the structural ones,
\* none, and one the viewer does not know
ViewerLabels ==
    {"handles", "persists", "transforms", "consumes", "produces", "calls", "dispatches",
     "imports", "references", "uses", Undefined}

\* the documents a user loads: JSON files that pass validate
ViewerDocs ==
    {[components |-> GraphComponents, edges |-> <<Edge("c1", "c2", l)>>, workflows |-> <<>>] :
        l \in ViewerLabels}
    \cup {[components |-> GraphComponents, edges |-> <<Edge("c1", "c2", "calls")>>,
           workflows |-> <<w>>] : w \in ViewerWorkflows}
    \cup {[components |-> GraphComponents,
           edges |-> <<Edge("c1", "c2", "imports"), Edge("c3", "c2", "persists")>>,
           workflows |-> <<>>],
          [components |-> GraphComponents, edges |-> <<Edge("c1", "c2", "handles")>>],
          [components |-> <<>>, edges |-> <<>>, workflows |-> <<>>]}

\* the documents of the selection claims: flow edges from and to the transport,
\* a flow self-loop on it, an edge that is no flow edge, and a flow edge whose
\* other end "t0" is the id of no component
SelectEdgePool ==
    {Edge("t1", "t2", "persists"), Edge("t3", "t1", "calls"), Edge("t1", "t1", "persists"),
     Edge("t1", "t2", "imports"), Edge("t2", "t3", "persists"), Edge("t1", "t0", "persists")}

MaxSelectEdges == 2

SelectDocs ==
    [components : {TraceComponents},
     edges : SeqsUpTo(SelectEdgePool, MaxSelectEdges),
     workflows : {<<>>}]

\* the kinds whose chips get clicked
ToggledKinds == {"model", "transport"}

\* what gets typed into the search box
SearchQueries == {"", " ", "u"}

\* query.trim() is empty
IsBlank(query) == query \in {"", " "}

\* what fuse.search can return: items of the index, each at most once, best first
\* (which ones, and in which order, is the library's fuzzy matching)
FuseHits(items) ==
    {r \in SeqsUpTo(Range(items), MaxSearchResults) :
        \A i, j \in DOMAIN r : r[i] = r[j] => i = j}

\* search.ts search(query), for one outcome of fuse.search
Search(query, hits) == IF fuse = Null \/ IsBlank(query) THEN <<>> ELSE hits

\* useMemo: workflows = schema?.workflows ?? []
Workflows ==
    IF IsNoSchema(hook.schema) \/ "workflows" \notin DOMAIN hook.schema
    THEN <<>>
    ELSE hook.schema.workflows

\* useMemo: {nodes, edges}
GraphMemo ==
    IF IsNoSchema(hook.schema) THEN [nodes |-> <<>>, edges |-> <<>>]
    ELSE BuildGraph(hook.schema, hook.activeKinds)

\* useMemo: {flowNodes, flowEdges}
FlowMemo ==
    IF IsNoSchema(hook.schema) THEN [nodes |-> <<>>, edges |-> <<>>]
    ELSE BuildFlowGraph(hook.schema, hook.activeKinds)

\* useMemo: flowNodeIdSet
FlowNodeIdSet == {FlowMemo.nodes[i].id : i \in DOMAIN FlowMemo.nodes}

\* useMemo: highlightedNodeIds, the trace of a selected transport or null
HighlightedNodeIds ==
    IF hook.selectedNode = Null THEN Null
    ELSE IF hook.selectedNode.kind # "transport" THEN Null
    ELSE LET nodeIds == TraceWorkflow(hook.schema, hook.selectedNode.id).nodeIds
         IN IF Len(nodeIds) > 1 THEN nodeIds ELSE Null

\* AppInner renders the search bar
SearchBarShown == hook.viewMode = "graph"

\* WorkflowView: the ids of the nodes it makes of a workflow's steps
WorkflowViewNodeIds(workflow) ==
    [i \in DOMAIN workflow.steps |-> "wf-" \o ToString(workflow.steps[i].order)]

HandleLoadResettingKinds(data) ==
    /\ hook' = [hook EXCEPT !.schema = data,
                            !.activeKinds = Range(ALL_KINDS),
                            !.selectedNode = Null,
                            !.searchQuery = "",
                            !.searchResults = <<>>,
                            !.selectedWorkflow = Null,
                            !.viewMode = "graph"]
    /\ fuse' = data.components
    /\ app' = [app EXCEPT !.showWorkflowPanel = FALSE]
    /\ UNCHANGED <<callArgs, callRet>>

\* handleLoad: loadSchema(data); setShowWorkflowPanel(false)
HandleLoad(data) ==
    /\ hook' = [hook EXCEPT !.schema = data,
                            !.selectedNode = Null,
                            !.searchQuery = "",
                            !.searchResults = <<>>,
                            !.selectedWorkflow = Null,
                            !.viewMode = "graph"]
    /\ fuse' = data.components
    /\ app' = [app EXCEPT !.showWorkflowPanel = FALSE]
    /\ UNCHANGED <<callArgs, callRet>>

\* a kind chip of the search bar
ToggleKind(kind) ==
    /\ SearchBarShown
    /\ hook' = [hook EXCEPT !.activeKinds = IF kind \in @ THEN @ \ {kind} ELSE @ \cup {kind}]
    /\ UNCHANGED <<callArgs, callRet, fuse, app>>

\* typing into the search bar
DoSearch(query) ==
    /\ SearchBarShown
    /\ \E hits \in (IF fuse = Null THEN {<<>>} ELSE FuseHits(fuse)) :
          hook' = [hook EXCEPT !.searchQuery = query, !.searchResults = Search(query, hits)]
    /\ UNCHANGED <<callArgs, callRet, fuse, app>>

\* picking a result of the search bar's dropdown
HandleSearchSelect(component) ==
    /\ SearchBarShown
    /\ component \in Range(hook.searchResults)
    /\ hook' = [hook EXCEPT !.selectedNode = component]
    /\ app' = [app EXCEPT !.focusNodeId = component.id]
    /\ UNCHANGED <<callArgs, callRet, fuse>>

\* clicking a node of the canvas
HandleNodeClick(component) ==
    /\ \E i \in DOMAIN GraphMemo.nodes : GraphMemo.nodes[i].data.component = component
    /\ hook' = [hook EXCEPT !.selectedNode = component]
    /\ app' = [app EXCEPT !.focusNodeId = Null]
    /\ UNCHANGED <<callArgs, callRet, fuse>>

\* the toolbar's Flow View button, there while the flow view has edges
ToggleFlowView ==
    /\ Len(FlowMemo.edges) > 0
    /\ hook' = [hook EXCEPT !.viewMode = IF @ = "flow" THEN "graph" ELSE "flow"]
    /\ UNCHANGED <<callArgs, callRet, fuse, app>>

\* the toolbar's Workflows button, there in the flow view while there are workflows
HandleToggleWorkflows ==
    /\ hook.viewMode = "flow"
    /\ Len(Workflows) > 0
    /\ app' = [app EXCEPT !.showWorkflowPanel = ~@]
    /\ UNCHANGED <<callArgs, callRet, hook, fuse>>

\* the workflow panel: a workflow of the list, or back to the list
SelectWorkflow(workflow) ==
    /\ app.showWorkflowPanel
    /\ ~IsNoSchema(hook.schema)
    /\ IF hook.selectedWorkflow = Null
       THEN workflow \in Range(Workflows)
       ELSE workflow = Null
    /\ hook' = [hook EXCEPT !.selectedWorkflow = workflow]
    /\ UNCHANGED <<callArgs, callRet, fuse, app>>

\* handleNavigate: a step of the selected workflow whose component is in the document
HandleNavigate(component) ==
    /\ app.showWorkflowPanel
    /\ ~IsNoSchema(hook.schema)
    /\ hook.selectedWorkflow # Null
    /\ component \in Range(hook.schema.components)
    /\ \E i \in DOMAIN hook.selectedWorkflow.steps :
          hook.selectedWorkflow.steps[i].component_id = component.id
    /\ hook' = [hook EXCEPT !.selectedNode = component,
                            !.selectedWorkflow = IF hook.viewMode = "workflow" THEN Null ELSE @]
    /\ app' = [app EXCEPT !.focusNodeId = component.id]
    /\ UNCHANGED <<callArgs, callRet, fuse>>

InitViewer == callArgs = [fn |-> "none"] /\ callRet = Pending /\ ViewerConstructed

NextViewer ==
    \/ \E data \in ViewerDocs : HandleLoad(data)
    \/ \E kind \in ToggledKinds : ToggleKind(kind)
    \/ \E query \in SearchQueries : DoSearch(query)
    \/ \E component \in Range(GraphComponents) : HandleSearchSelect(component)
    \/ \E component \in Range(GraphComponents) : HandleNodeClick(component)
    \/ ToggleFlowView
    \/ HandleToggleWorkflows
    \/ \E workflow \in ViewerWorkflows \cup {Null} : SelectWorkflow(workflow)
    \/ \E component \in Range(GraphComponents) : HandleNavigate(component)

SpecViewer == InitViewer /\ [][NextViewer]_vars

\* loading a document and clicking its nodes
NextSelect ==
    \/ \E data \in SelectDocs : HandleLoad(data)
    \/ \E component \in Range(TraceComponents) : HandleNodeClick(component)

SpecSelect == InitViewer /\ [][NextSelect]_vars

----------------------------------------------------------------------------
(* loader.ts: loadFromFile, setupDropZone *)

\* bounds of the drop zone's runs: how far dragCounter gets from 0, how many
\* drops, and how many calls the drag handlers add to the record of calls
MaxDragDepth == 2

MaxDrops == 2

MaxCalls == 4

\* String.prototype.endsWith, on strings as sequences of characters
EndsWith(cs, suffix) ==
    /\ Len(cs) >= Len(suffix)
    /\ SubSeq(cs, Len(cs) - Len(suffix) + 1, Len(cs)) = suffix

DotJson == <<".", "j", "s", "o", "n">>

\* e.dataTransfer?.files[0] of a drop that carries no file
NoFile == [present |-> FALSE]

\* what file.text() and JSON.parse make of a file: the read fails, the text is
\* no JSON, or the text is the JSON of a value
Unreadable == [kind |-> "unreadable"]

NotJson == [kind |-> "text"]

JsonOf(v) == [kind |-> "json", value |-> v]

DroppedFile(name, content) == [present |-> TRUE, name |-> name, content |-> content]

\* the messages of the exceptions of file.text() and JSON.parse (the browser's)
ReadErrorMessage == "The requested file could not be read"

SyntaxErrorMessage == "Unexpected token"

WrongExtensionMessage == "Please drop a .json file"

\* the files that get dropped
DropFiles ==
    {NoFile,
     DroppedFile(<<"d", ".", "t", "x", "t">>, JsonOf(EmptyJsDocument)),
     DroppedFile(<<"d", ".", "J", "S", "O", "N">>, JsonOf(EmptyJsDocument)),
     DroppedFile(<<"d", ".", "j", "s", "o", "n">>, Unreadable),
     DroppedFile(<<"d", ".", "j", "s", "o", "n">>, NotJson),
     DroppedFile(<<"d", ".", "j", "s", "o", "n">>,
                 JsonOf(JsObject([n \in {"components"} |-> JsArray(<<>>)]))),
     DroppedFile(<<"d", ".", "j", "s", "o", "n">>, JsonOf(EmptyJsDocument)),
     DroppedFile(DotJson, JsonOf(JsNull))}

LoadFromFileUnvalidated(file) ==
    CASE file.content.kind = "unreadable" -> [threw |-> TRUE, message |-> ReadErrorMessage]
      [] file.content.kind = "text" -> [threw |-> TRUE, message |-> SyntaxErrorMessage]
      [] OTHER -> [threw |-> FALSE, value |-> file.content.value]

\* loadFromFile: validate(JSON.parse(await file.text())), or what is thrown
LoadFromFile(file) ==
    CASE file.content.kind = "unreadable" -> [threw |-> TRUE, message |-> ReadErrorMessage]
      [] file.content.kind = "text" -> [threw |-> TRUE, message |-> SyntaxErrorMessage]
      [] OTHER -> Validate(file.content.value)

\* one call of a callback of setupDropZone; drop is the number of the drop
\* whose handler made the call (0 for the drag handlers)
Call(callback, arg, drop) == [callback |-> callback, arg |-> arg, drop |-> drop]

\* the drop zone after setupDropZone(element, onLoad, onError, onDragStateChange):
\* the listeners are attached and dragCounter is 0; reads are the drops whose
\* handleDrop waits for loadFromFile, dropped the files of the drops so far, and
\* calls the calls of the three callbacks so far
SetupDropZone ==
    [attached |-> TRUE, dragCounter |-> 0, reads |-> {}, dropped |-> <<>>, calls |-> <<>>]

Zone == callRet.value

\* the reads handleDrop can be waiting for
DropReads == [drop : 1..(MaxDrops + 1), file : DropFiles \ {NoFile}]

HandleDragEnter ==
    /\ Zone.attached
    /\ Zone.dragCounter < MaxDragDepth
    /\ Len(Zone.calls) < MaxCalls
    /\ callRet' = Returned([Zone EXCEPT
            !.dragCounter = @ + 1,
            !.calls = IF Zone.dragCounter + 1 = 1
                      THEN Append(@, Call("onDragStateChange", TRUE, 0))
                      ELSE @])
    /\ UNCHANGED <<callArgs, viewerVars>>

\* handleDragOver only keeps the browser from handling the event
HandleDragOver ==
    /\ Zone.attached
    /\ UNCHANGED <<callArgs, callRet, viewerVars>>

HandleDragLeave ==
    /\ Zone.attached
    /\ Zone.dragCounter > -MaxDragDepth
    /\ Len(Zone.calls) < MaxCalls
    /\ callRet' = Returned([Zone EXCEPT
            !.dragCounter = @ - 1,
            !.calls = IF Zone.dragCounter - 1 = 0
                      THEN Append(@, Call("onDragStateChange", FALSE, 0))
                      ELSE @])
    /\ UNCHANGED <<callArgs, viewerVars>>

HandleDropKeepingCounter(file) ==
    /\ Zone.attached
    /\ Len(Zone.dropped) < MaxDrops
    /\ LET drop == Len(Zone.dropped) + 1
           reported == Append(Zone.calls, Call("onDragStateChange", FALSE, drop))
       IN callRet' = Returned([Zone EXCEPT
              !.dropped = Append(@, file),
              !.calls = IF file.present /\ ~EndsWith(file.name, DotJson)
                        THEN Append(reported, Call("onError", WrongExtensionMessage, drop))
                        ELSE reported,
              !.reads = IF file.present /\ EndsWith(file.name, DotJson)
                        THEN @ \cup {[drop |-> drop, file |-> file]}
                        ELSE @])
    /\ UNCHANGED <<callArgs, viewerVars>>

\* handleDrop, up to its await
HandleDrop(file) ==
    /\ Zone.attached
    /\ Len(Zone.dropped) < MaxDrops
    /\ LET drop == Len(Zone.dropped) + 1
           reported == Append(Zone.calls, Call("onDragStateChange", FALSE, drop))
       IN callRet' = Returned([Zone EXCEPT
              !.dragCounter = 0,
              !.dropped = Append(@, file),
              !.calls = IF file.present /\ ~EndsWith(file.name, DotJson)
                        THEN Append(reported, Call("onError", WrongExtensionMessage, drop))
                        ELSE reported,
              !.reads = IF file.present /\ EndsWith(file.name, DotJson)
                        THEN @ \cup {[drop |-> drop, file |-> file]}
                        ELSE @])
    /\ UNCHANGED <<callArgs, viewerVars>>

\* handleDrop, from its await on: loadFromFile has settled
ReadSettles(read) ==
    /\ read \in Zone.reads
    /\ LET loaded == LoadFromFile(read.file)
       IN callRet' = Returned([Zone EXCEPT
              !.reads = @ \ {read},
              !.calls = IF loaded.threw
                        THEN Append(@, Call("onError", loaded.message, read.drop))
                        ELSE Append(@, Call("onLoad", loaded.value, read.drop))])
    /\ UNCHANGED <<callArgs, viewerVars>>

\* the function setupDropZone returns
Cleanup ==
    /\ Zone.attached
    /\ callRet' = Returned([Zone EXCEPT !.attached = FALSE])
    /\ UNCHANGED <<callArgs, viewerVars>>

InitDropZone ==
    /\ callArgs = [fn |-> "setupDropZone"]
    /\ callRet = Returned(SetupDropZone)
    /\ ViewerConstructed

SomeReadSettles == \E read \in DropReads : ReadSettles(read)

NextDropZone ==
    \/ HandleDragEnter
    \/ HandleDragOver
    \/ HandleDragLeave
    \/ \E file \in DropFiles : HandleDrop(file)
    \/ SomeReadSettles
    \/ Cleanup

SpecDropZone == InitDropZone /\ [][NextDropZone]_vars

\* a read that was started settles: file.text() resolves or rejects
SpecDropZoneFair == SpecDropZone /\ WF_vars(SomeReadSettles)

----------------------------------------------------------------------------
(* The arrays, Maps and Sets of a call *)

(***************************************************************************)
(* A JavaScript array, Map or Set is an object that several variables can  *)
(* hold, and push, shift, sort, set, add and property writes change it for *)
(* all of them.  Memory maps each such object to its contents; the object  *)
(* is named by the variable that first holds it: "data.components" and     *)
(* "data.edges" for the two arrays of the loaded document, the local       *)
(* variable for an object a function creates.  A parameter holds the       *)
(* object the caller passes, so the functions below take names.            *)
(***************************************************************************)
Snapshot(data) ==
    [name \in {"data.components", "data.edges"} |->
        IF name = "data.components" THEN data.components ELSE data.edges]

\* a new object ([], new Map(), new Set(), map, spread) with these contents
Created(mem, name, items) ==
    [n \in DOMAIN mem \cup {name} |-> IF n = name THEN items ELSE mem[n]]

\* push, shift, sort, set, add or a property write: the object gets new contents
InPlace(mem, name, items) == [mem EXCEPT ![name] = items]

FilterInPlace(mem, source, name, items) == Created(InPlace(mem, source, items), name, items)

\* source.filter(...): a new array of the elements that pass, source keeps its own
Filter(mem, source, name, items) == Created(mem, name, items)

\* classifyComponents(components)
ClassifyComponentsInMemory(mem, components) ==
    LET labelled == LabelAll(<<>>, mem[components])
        clusterMap == InPlace(Created(mem, "clusterMap", <<>>), "clusterMap", labelled)
        clusterCounts == InPlace(Created(clusterMap, "clusterCounts", <<>>), "clusterCounts",
                                 CountClusters(<<>>, MapValues(labelled)))
    IN InPlace(clusterCounts, "clusterMap", FoldSmallClusters(labelled))

\* detectHubs(components, edges)
DetectHubsInMemory(mem, components, edges) ==
    LET degreeMap == InPlace(Created(mem, "degreeMap", <<>>), "degreeMap",
                             DegreeMap(mem[components], mem[edges]))
        degrees == Created(degreeMap, "degrees", MapValues(degreeMap["degreeMap"]))
    IN IF Len(degrees["degrees"]) = 0
       THEN Created(degrees, "hubMap", <<>>)
       ELSE InPlace(Created(degrees, "hubMap", <<>>), "hubMap",
                    DetectHubs(mem[components], mem[edges]))

\* the array `list` of one cluster
ListOf(cluster) == "list " \o StrOf(cluster)

\* list = []; clusters.set(cluster, list); list.push(c), for each cluster
RECURSIVE PushLists(_, _)
PushLists(mem, clusters) ==
    IF clusters = <<>> THEN mem
    ELSE PushLists(InPlace(Created(mem, ListOf(Head(clusters).key), <<>>),
                           ListOf(Head(clusters).key), Head(clusters).value),
                   Tail(clusters))

\* comps.sort(...) for each entry of sortedClusters
RECURSIVE SortLists(_, _, _)
SortLists(mem, sortedClusters, hubMap) ==
    IF sortedClusters = <<>> THEN mem
    ELSE SortLists(InPlace(mem, Head(sortedClusters).value,
                           SortByDegree(<<>>, mem[Head(sortedClusters).value], mem[hubMap])),
                   Tail(sortedClusters), hubMap)

\* clusterGridLayout(components, clusterMap, hubMap)
ClusterGridLayoutInMemory(mem, components, clusterMap, hubMap) ==
    LET grouped == GroupByCluster(<<>>, mem[components], mem[clusterMap])
        entries == [i \in DOMAIN grouped |->
                      [key |-> grouped[i].key, value |-> ListOf(grouped[i].key)]]
        sorted == SortClusters(<<>>, grouped)
        clusters == InPlace(Created(PushLists(mem, grouped), "clusters", <<>>),
                            "clusters", entries)
        sortedClusters ==
            InPlace(Created(clusters, "sortedClusters", entries), "sortedClusters",
                    [i \in DOMAIN sorted |->
                        [key |-> sorted[i].key, value |-> ListOf(sorted[i].key)]])
        lists == SortLists(sortedClusters, sortedClusters["sortedClusters"], hubMap)
        layout == ClusterGridLayout(mem[components], mem[clusterMap], mem[hubMap])
        positions == InPlace(Created(lists, "positions", <<>>), "positions", layout.positions)
    IN InPlace(Created(positions, "headerNodes", <<>>), "headerNodes", layout.headerNodes)

\* buildGraph(data, activeKinds), on the memory that holds data
BuildGraphInMemory(mem, activeKinds) ==
    LET data == [components |-> mem["data.components"], edges |-> mem["data.edges"]]
        filteredComponents ==
            Filter(mem, "data.components", "filteredComponents",
                   FilterByKind(data.components, activeKinds))
        filteredEdges ==
            Filter(filteredComponents, "data.edges", "filteredEdges",
                   VisibleEdges(data.edges, IdsOf(filteredComponents["filteredComponents"])))
        edgeMap == InPlace(Created(filteredEdges, "edgeMap", <<>>), "edgeMap",
                           MergeEdges(filteredEdges["filteredEdges"]))
        uniqueEdges == Created(edgeMap, "uniqueEdges", edgeMap["edgeMap"])
        clusterMap == ClassifyComponentsInMemory(uniqueEdges, "filteredComponents")
        hubMap == DetectHubsInMemory(clusterMap, "filteredComponents", "filteredEdges")
        layout == IF Len(uniqueEdges["uniqueEdges"]) > MAX_DAGRE_EDGES
                  THEN ClusterGridLayoutInMemory(hubMap, "filteredComponents",
                                                 "clusterMap", "hubMap")
                  ELSE InPlace(Created(hubMap, "g", <<>>), "g",
                               [nodes |-> IdsOf(hubMap["filteredComponents"]),
                                edges |-> uniqueEdges["uniqueEdges"]])
        componentNodes == Created(layout, "componentNodes", BuildGraph(data, activeKinds).nodes)
        edges == Created(componentNodes, "edges",
                         [i \in DOMAIN uniqueEdges["uniqueEdges"] |->
                             StyleEdge(uniqueEdges["uniqueEdges"][i], i - 1)])
    IN InPlace(edges, "edges", PayloadLast(edges["edges"]))

\* buildFlowGraph(data, activeKinds), on the memory that holds data
BuildFlowGraphInMemory(mem, activeKinds) ==
    LET data == [components |-> mem["data.components"], edges |-> mem["data.edges"]]
        flowEdges == Filter(mem, "data.edges", "flowEdges", FlowEdges(data.edges))
        flowNodeIds == InPlace(Created(flowEdges, "flowNodeIds", {}), "flowNodeIds",
                               EndpointIds(flowEdges["flowEdges"]))
        filteredComponents ==
            Filter(flowNodeIds, "data.components", "filteredComponents",
                   SelectSeq(data.components,
                             LAMBDA c : c.kind \in activeKinds
                                           /\ c.id \in flowNodeIds["flowNodeIds"]))
        visibleIds == IdsOf(filteredComponents["filteredComponents"])
        visibleEdges == VisibleEdges(flowEdges["flowEdges"], visibleIds)
        edgeMap == InPlace(Created(filteredComponents, "edgeMap", <<>>), "edgeMap",
                           MergeEdges(visibleEdges))
        uniqueEdges == Created(edgeMap, "uniqueEdges", edgeMap["edgeMap"])
        connectedIds == InPlace(Created(uniqueEdges, "connectedIds", {}), "connectedIds",
                                EndpointIds(uniqueEdges["uniqueEdges"]))
        connectedComponents ==
            Filter(connectedIds, "filteredComponents", "connectedComponents",
                   ConnectedComponents(filteredComponents["filteredComponents"],
                                       uniqueEdges["uniqueEdges"]))
        g == InPlace(Created(connectedComponents, "g", <<>>), "g",
                     [nodes |-> IdsOf(connectedComponents["connectedComponents"]),
                      edges |-> uniqueEdges["uniqueEdges"]])
        hubEdges == Filter(g, "flowEdges", "hubEdges", visibleEdges)
        hubMap == DetectHubsInMemory(hubEdges, "connectedComponents", "hubEdges")
        clusterMap == ClassifyComponentsInMemory(hubMap, "connectedComponents")
        nodes == Created(clusterMap, "nodes", BuildFlowGraph(data, activeKinds).nodes)
        edges == Created(nodes, "edges",
                         [i \in DOMAIN uniqueEdges["uniqueEdges"] |->
                             StyleFlowEdge(uniqueEdges["uniqueEdges"][i], i - 1)])
    IN InPlace(edges, "edges", PayloadLast(edges["edges"]))

\* traceWorkflow(componentId), on the memory that holds schema
TraceWorkflowInMemory(mem, componentId) ==
    LET flowEdges == Filter(mem, "data.edges", "flowEdges", FlowEdges(mem["data.edges"]))
        nodeIds == Created(flowEdges, "nodeIds", <<>>)
        edgeIds == Created(nodeIds, "edgeIds", <<>>)
        queue == Created(edgeIds, "queue", <<componentId>>)
        st == TraceLoop([nodeIds |-> <<componentId>>, edgeIds |-> <<>>,
                         queue |-> queue["queue"]],
                        flowEdges["flowEdges"])
    IN InPlace(InPlace(InPlace(queue, "nodeIds", st.nodeIds), "edgeIds", st.edgeIds),
               "queue", st.queue)

\* the documents of the memory runs: three services of one cluster and a model,
\* flow edges with and without a payload label, a self-loop, an edge that is no
\* flow edge
SnapshotEdgePool ==
    {Edge("o1", "o2", "imports"), Edge("o1", "o2", "produces"), Edge("o3", "o3", "calls"),
     Edge("o1", "o4", "persists"), Edge("o2", "o1", "calls")}

MaxSnapshotEdges == 2

SnapshotInputs ==
    [fn : {"buildGraph", "buildFlowGraph", "classifyComponents", "detectHubs",
           "clusterGridLayout", "traceWorkflow"},
     data : [components : {OrderComponents},
             edges : SeqsUpTo(SnapshotEdgePool, MaxSnapshotEdges),
             workflows : {<<>>}],
     componentId : {"o1"}]

\* the viewer after handleLoad(data)
ViewerLoaded(data) ==
    /\ hook = [schema |-> data,
               activeKinds |-> Range(ALL_KINDS),
               selectedNode |-> Null,
               searchQuery |-> "",
               searchResults |-> <<>>,
               selectedWorkflow |-> Null,
               viewMode |-> "graph"]
    /\ fuse = data.components
    /\ app = [focusNodeId |-> Null, showWorkflowPanel |-> FALSE]

\* useMemo: buildGraph(schema, activeKinds)
CallBuildGraphInMemory ==
    /\ callArgs.fn = "buildGraph"
    /\ ~callRet.done
    /\ callRet' = Returned(BuildGraphInMemory(Snapshot(hook.schema), hook.activeKinds))
    /\ UNCHANGED <<callArgs, viewerVars>>

\* useMemo: buildFlowGraph(schema, activeKinds)
CallBuildFlowGraphInMemory ==
    /\ callArgs.fn = "buildFlowGraph"
    /\ ~callRet.done
    /\ callRet' = Returned(BuildFlowGraphInMemory(Snapshot(hook.schema), hook.activeKinds))
    /\ UNCHANGED <<callArgs, viewerVars>>

\* classifyComponents on the document's own array
CallClassifyComponentsInMemory ==
    /\ callArgs.fn = "classifyComponents"
    /\ ~callRet.done
    /\ callRet' = Returned(ClassifyComponentsInMemory(Snapshot(hook.schema), "data.components"))
    /\ UNCHANGED <<callArgs, viewerVars>>

\* detectHubs on the document's own arrays
CallDetectHubsInMemory ==
    /\ callArgs.fn = "detectHubs"
    /\ ~callRet.done
    /\ callRet' = Returned(DetectHubsInMemory(Snapshot(hook.schema),
                                              "data.components", "data.edges"))
    /\ UNCHANGED <<callArgs, viewerVars>>

\* buildGraph up to its call of clusterGridLayout, and that call
CallClusterGridLayoutInMemory ==
    /\ callArgs.fn = "clusterGridLayout"
    /\ ~callRet.done
    /\ LET mem == Snapshot(hook.schema)
           filteredComponents ==
               Filter(mem, "data.components", "filteredComponents",
                      FilterByKind(mem["data.components"], hook.activeKinds))
           filteredEdges ==
               Filter(filteredComponents, "data.edges", "filteredEdges",
                      VisibleEdges(mem["data.edges"],
                                   IdsOf(filteredComponents["filteredComponents"])))
           clusterMap == ClassifyComponentsInMemory(filteredEdges, "filteredComponents")
           hubMap == DetectHubsInMemory(clusterMap, "filteredComponents", "filteredEdges")
       IN callRet' = Returned(ClusterGridLayoutInMemory(hubMap, "filteredComponents",
                                                        "clusterMap", "hubMap"))
    /\ UNCHANGED <<callArgs, viewerVars>>

\* useMemo: traceWorkflow(selectedNode.id)
CallTraceWorkflowInMemory ==
    /\ callArgs.fn = "traceWorkflow"
    /\ ~callRet.done
    /\ callRet' = Returned(TraceWorkflowInMemory(Snapshot(hook.schema), callArgs.componentId))
    /\ UNCHANGED <<callArgs, viewerVars>>

InitSnapshot ==
    /\ callArgs \in SnapshotInputs
    /\ callRet = Pending
    /\ ViewerLoaded(callArgs.data)

NextSnapshot ==
    \/ \E kind \in ToggledKinds : ToggleKind(kind)
    \/ ToggleFlowView
    \/ CallBuildGraphInMemory
    \/ CallBuildFlowGraphInMemory
    \/ CallClassifyComponentsInMemory
    \/ CallDetectHubsInMemory
    \/ CallClusterGridLayoutInMemory
    \/ CallTraceWorkflowInMemory

SpecSnapshot == InitSnapshot /\ [][NextSnapshot]_vars

----------------------------------------------------------------------------
(* Properties *)

Returns(fn) == callArgs.fn = fn /\ callRet.done

\* the raw edges (indices into edges) of the ordered pair from -> to
RawOfPair(edges, from, to) ==
    {i \in DOMAIN edges : edges[i].from_id = from /\ edges[i].to_id = to}

\* the labels the raw edges of a pair carry
LabelsOfPair(edges, from, to) ==
    {edges[i].label : i \in {j \in RawOfPair(edges, from, to) : Truthy(edges[j].label)}}

FirstIndexOf(edges, from, to, l) ==
    CHOOSE i \in RawOfPair(edges, from, to) :
        /\ edges[i].label = l
        /\ \A j \in RawOfPair(edges, from, to) : edges[j].label = l => i <= j

\* the labels of a pair, each once, in the order of their first raw edge
LabelsInFirstOccurrenceOrder(edges, from, to) ==
    LET ls == LabelsOfPair(edges, from, to)
    IN CHOOSE L \in [1..Cardinality(ls) -> ls] :
         \A a, b \in 1..Cardinality(ls) :
            a < b => FirstIndexOf(edges, from, to, L[a]) < FirstIndexOf(edges, from, to, L[b])

\* the payload type of the first raw edge of a pair that has one
FirstPayloadOfPair(edges, from, to) ==
    LET with == {i \in RawOfPair(edges, from, to) : Truthy(edges[i].payload_type)}
    IN IF with = {} THEN Undefined
       ELSE edges[CHOOSE i \in with : \A j \in with : i <= j].payload_type

\* the text an edge shows for a label list and a payload type
ShownLabel(L, payload) ==
    LET text == Join(L, ", ") \o (IF payload = Undefined THEN "" ELSE " [" \o payload \o "]")
    IN IF text = "" THEN Undefined ELSE text

\* the raw edges a function merges: all of them, or the flow-labelled ones
MergeInput(fn, edges) ==
    IF fn = "buildGraph" THEN edges
    ELSE SelectSeq(edges, LAMBDA e : e.label \in
            {"handles", "persists", "transforms", "consumes", "produces", "calls", "dispatches"})

(***************************************************************************)
(* C1: edge merging in buildGraph and buildFlowGraph.  The returned edges  *)
(* hold at most one edge per ordered (from_id, to_id) pair, and the edge   *)
(* of a pair shows every distinct label of the pair's raw edges (the flow  *)
(* labelled ones in buildFlowGraph) exactly once, in the order of each     *)
(* label's first occurrence in the input.                                  *)
(***************************************************************************)
C1_MergedEdges ==
    callRet.done =>
        LET out == callRet.value.edges
            raw == MergeInput(callArgs.fn, callArgs.data.edges)
        IN /\ \A i, j \in DOMAIN out :
                 (out[i].source = out[j].source /\ out[i].target = out[j].target) => i = j
           /\ \A i \in DOMAIN out :
                 /\ RawOfPair(raw, out[i].source, out[i].target) # {}
                 /\ out[i].label =
                      ShownLabel(LabelsInFirstOccurrenceOrder(raw, out[i].source, out[i].target),
                                 FirstPayloadOfPair(raw, out[i].source, out[i].target))

\* two raw edges of one pair, 'imports' then 'references', came out as one edge
C1_Witness ==
    /\ Returns("buildGraph")
    /\ Len(callArgs.data.edges) = 2
    /\ Len(callRet.value.edges) = 1
    /\ callRet.value.edges[1].label = "imports, references"

\* the edges returned by buildGraph that touch a component
TouchingEdges(out, id) ==
    {i \in DOMAIN out : out[i].source = id \/ out[i].target = id}

(***************************************************************************)
(* C2: the degree buildGraph attaches to a node equals the number of       *)
(* edges buildGraph returns that touch that node, also when the document   *)
(* holds several raw edges for the same ordered pair.  Stated for the      *)
(* documents without self-loops: detectHubs counts a self-loop twice at    *)
(* its node, which is a second way the two numbers differ.                 *)
(***************************************************************************)
C2_DegreeCountsMergedEdges ==
    (/\ Returns("buildGraph")
     /\ \A i \in DOMAIN callArgs.data.edges :
           callArgs.data.edges[i].from_id # callArgs.data.edges[i].to_id)
    => \A i \in DOMAIN callRet.value.nodes :
          callRet.value.nodes[i].data.degree
              = Cardinality(TouchingEdges(callRet.value.edges, callRet.value.nodes[i].id))

\* the labels classifyComponents returned, and the components carrying each
ClusterMembers(clusterMap, label) == {i \in DOMAIN clusterMap : clusterMap[i].value = label}

\* the components of the input whose label before folding is `label`
PreFoldMembers(components, label) ==
    {i \in DOMAIN components : InitialCluster(components[i]) = label}

(***************************************************************************)
(* C3: in the map classifyComponents returns, no cluster label other than  *)
(* "Other" is assigned to fewer than 3 components, and a component whose   *)
(* pre-fold label is shared by at least 3 components keeps that label.     *)
(***************************************************************************)
C3_FoldInvariant ==
    Returns("classifyComponents") =>
        LET m == callRet.value
            comps == callArgs.components
        IN /\ Len(m) = Len(comps)
           /\ \A i \in DOMAIN m :
                /\ m[i].key = comps[i].id
                /\ m[i].value # <<"O", "t", "h", "e", "r">>
                      => Cardinality(ClusterMembers(m, m[i].value)) >= 3
                /\ Cardinality(PreFoldMembers(comps, InitialCluster(comps[i]))) >= 3
                      => m[i].value = InitialCluster(comps[i])

\* three components keep their shared label while a fourth, alone in its own, is folded
C3_Witness ==
    /\ Returns("classifyComponents")
    /\ \E i, j \in DOMAIN callRet.value :
          /\ callRet.value[i].value = <<"U", "x">>
          /\ Cardinality(ClusterMembers(callRet.value, <<"U", "x">>)) = 3
          /\ InitialCluster(callArgs.components[j]) = <<"a">>
          /\ callRet.value[j].value = <<"O", "t", "h", "e", "r">>

\* ids detectHubs keeps a degree for: the components, and every edge endpoint
DegreeIds(components, edges) ==
    {components[i].id : i \in DOMAIN components}
        \cup {edges[i].from_id : i \in DOMAIN edges}
        \cup {edges[i].to_id : i \in DOMAIN edges}

\* edge ends at id: the degree of id
EndsAt(edges, id) ==
    Cardinality({i \in DOMAIN edges : edges[i].from_id = id})
        + Cardinality({i \in DOMAIN edges : edges[i].to_id = id})

RECURSIVE SumOfDegrees(_, _)
SumOfDegrees(ids, edges) ==
    IF ids = {} THEN 0
    ELSE LET id == CHOOSE x \in ids : TRUE
         IN EndsAt(edges, id) + SumOfDegrees(ids \ {id}, edges)

RECURSIVE SumOfSquaredDegrees(_, _)
SumOfSquaredDegrees(ids, edges) ==
    IF ids = {} THEN 0
    ELSE LET id == CHOOSE x \in ids : TRUE
         IN EndsAt(edges, id) * EndsAt(edges, id) + SumOfSquaredDegrees(ids \ {id}, edges)

(***************************************************************************)
(* d > mean + k * stddev over the population of all degrees, from the      *)
(* moments: with n degrees, S their sum and T the sum of their squares,    *)
(* n^2 * variance = n*T - S^2, so the comparison is n*d > S and            *)
(* (n*d - S)^2 > k^2 * (n*T - S^2).                                        *)
(***************************************************************************)
AboveMeanPlus(d, k, ids, edges) ==
    LET n == Cardinality(ids)
        S == SumOfDegrees(ids, edges)
        T == SumOfSquaredDegrees(ids, edges)
    IN n * d > S /\ (n * d - S) * (n * d - S) > k * k * (n * T - S * S)

(***************************************************************************)
(* C4: detectHubs classifies each component from its degree d and the      *)
(* population mean and standard deviation of all degrees: 'high' iff       *)
(* d > mean + 2*stddev, 'medium' iff d > mean + stddev and not high,       *)
(* 'normal' otherwise; every component gets exactly one tier.              *)
(***************************************************************************)
C4_HubTiers ==
    Returns("detectHubs") =>
        LET hubMap == callRet.value
            ids == DegreeIds(callArgs.components, callArgs.edges)
        IN /\ \A c \in DOMAIN callArgs.components :
                Cardinality({i \in DOMAIN hubMap : hubMap[i].key = callArgs.components[c].id}) = 1
           /\ \A i \in DOMAIN hubMap :
                LET d == hubMap[i].value.degree
                    tier == hubMap[i].value.tier
                IN /\ d = EndsAt(callArgs.edges, hubMap[i].key)
                   /\ tier \in {"high", "medium", "normal"}
                   /\ tier = "high" <=> AboveMeanPlus(d, 2, ids, callArgs.edges)
                   /\ tier = "medium" <=> (/\ AboveMeanPlus(d, 1, ids, callArgs.edges)
                                           /\ ~AboveMeanPlus(d, 2, ids, callArgs.edges))

\* one call that classifies a component high, one medium and one normal
C4_Witness ==
    /\ Returns("detectHubs")
    /\ \E i, j, k \in DOMAIN callRet.value :
          /\ callRet.value[i].value.tier = "high"
          /\ callRet.value[j].value.tier = "medium"
          /\ callRet.value[k].value.tier = "normal"

\* a parsed document that has the two required arrays
HasRequiredArrays(v) ==
    /\ v.type = "object"
    /\ "components" \in DOMAIN v.fields /\ v.fields["components"].type = "array"
    /\ "edges" \in DOMAIN v.fields /\ v.fields["edges"].type = "array"

(***************************************************************************)
(* C5: loading a document that has the components and edges arrays but no  *)
(* workflows array succeeds, and validate returns a document whose         *)
(* workflows field is the empty array.                                     *)
(***************************************************************************)
C5_WorkflowsDefaulted ==
    (/\ Returns("validate")
     /\ HasRequiredArrays(callArgs.data)
     /\ "workflows" \notin DOMAIN callArgs.data.fields)
    => /\ ~callRet.value.threw
       /\ "workflows" \in DOMAIN callRet.value.value.fields
       /\ callRet.value.value.fields["workflows"] = [type |-> "array", items |-> <<>>]

(***************************************************************************)
(* C6: validate rejects, with the error 'Invalid SysVista JSON: missing    *)
(* required fields (components, edges)', every parsed input that is null,  *)
(* not an object, or lacks an array-valued components or an array-valued   *)
(* edges field; every input with both arrays is accepted and returned.     *)
(***************************************************************************)
C6_RequiredArrays ==
    Returns("validate") =>
        IF HasRequiredArrays(callArgs.data)
        THEN ~callRet.value.threw /\ callRet.value.value = callArgs.data
        ELSE /\ callRet.value.threw
             /\ callRet.value.message
                  = "Invalid SysVista JSON: missing required fields (components, edges)"

\* an object with a components array whose edges field is not an array was rejected
C6_Witness ==
    /\ Returns("validate")
    /\ callArgs.data.type = "object"
    /\ "components" \in DOMAIN callArgs.data.fields
    /\ callArgs.data.fields["components"].type = "array"
    /\ "edges" \in DOMAIN callArgs.data.fields
    /\ callArgs.data.fields["edges"].type = "string"
    /\ callRet.value.threw

SevenFlowLabels ==
    {"handles", "persists", "transforms", "consumes", "produces", "calls", "dispatches"}


\* the flow labels a returned edge merges, by the document
FlowLabelsOfPair(edges, from, to) == LabelsOfPair(edges, from, to) \cap SevenFlowLabels

(***************************************************************************)
(* C7: in the result of buildFlowGraph every returned node is a component  *)
(* of an active kind that is an endpoint of at least one returned edge,    *)
(* every returned edge has both endpoints among the returned nodes, and    *)
(* every label carried by a returned edge is a flow label.                 *)
(***************************************************************************)
C7_FlowGraph ==
    Returns("buildFlowGraph") =>
        LET nodes == callRet.value.nodes
            out == callRet.value.edges
            nodeIds == {nodes[i].id : i \in DOMAIN nodes}
        IN /\ \A i \in DOMAIN nodes :
                /\ nodes[i].data.component \in Range(callArgs.data.components)
                /\ nodes[i].id = nodes[i].data.component.id
                /\ nodes[i].data.component.kind \in callArgs.activeKinds
                /\ TouchingEdges(out, nodes[i].id) # {}
           /\ \A i \in DOMAIN out :
                /\ out[i].source \in nodeIds
                /\ out[i].target \in nodeIds
                /\ FlowLabelsOfPair(callArgs.data.edges, out[i].source, out[i].target) # {}
                /\ out[i].label =
                     ShownLabel(LabelsInFirstOccurrenceOrder(
                                    MergeInput("buildFlowGraph", callArgs.data.edges),
                                    out[i].source, out[i].target),
                                FirstPayloadOfPair(
                                    MergeInput("buildFlowGraph", callArgs.data.edges),
                                    out[i].source, out[i].target))

\* the flow view of a pair that carries 'imports' and 'calls': the edge shows
\* 'calls' alone, and the model, of an active kind but on no flow edge, is left out
C7_Witness ==
    /\ Returns("buildFlowGraph")
    /\ callArgs.activeKinds = {"transport", "service", "model"}
    /\ callArgs.data.edges = <<Edge("c1", "c2", "imports"), Edge("c1", "c2", "calls")>>
    /\ Len(callRet.value.nodes) = 2
    /\ Len(callRet.value.edges) = 1
    /\ callRet.value.edges[1].label = "calls"

\* the ids reached from a set by flow edges taken in either direction, to a fixed point
RECURSIVE FlowClosure(_, _, _)
FlowClosure(reached, edges, fuel) ==
    LET next == reached
                  \cup {edges[i].to_id : i \in {j \in DOMAIN edges :
                            edges[j].label \in SevenFlowLabels /\ edges[j].from_id \in reached}}
                  \cup {edges[i].from_id : i \in {j \in DOMAIN edges :
                            edges[j].label \in SevenFlowLabels /\ edges[j].to_id \in reached}}
    IN IF fuel = 0 \/ next = reached THEN reached ELSE FlowClosure(next, edges, fuel - 1)

\* the ids joined to start by paths of flow edges, taken in either direction
FlowReachable(edges, start) == FlowClosure({start}, edges, 2 * Len(edges) + 1)

(***************************************************************************)
(* C8: traceWorkflow(start) returns as nodeIds exactly the set of          *)
(* component ids reachable from start by paths of flow-labelled edges      *)
(* traversed in either direction (start included); edges with structural   *)
(* labels or no label never extend the set.                                *)
(***************************************************************************)
C8_TraceReachable ==
    Returns("traceWorkflow") =>
        LET nodeIds == callRet.value.nodeIds
        IN /\ Range(nodeIds) = FlowReachable(callArgs.schema.edges, callArgs.componentId)
           /\ \A i, j \in DOMAIN nodeIds : nodeIds[i] = nodeIds[j] => i = j

\* t1 reaches t2 and t3 against the direction of both edges; an unlabelled edge is there too
C8_Witness ==
    /\ Returns("traceWorkflow")
    /\ callArgs.componentId = "t1"
    /\ callArgs.schema.edges
         = <<Edge("t3", "t2", "persists"), Edge("t2", "t1", "persists"), Edge("t3", "t3", Undefined)>>
    /\ Range(callRet.value.nodeIds) = {"t1", "t2", "t3"}

\* a structural edge out of the start does not extend the trace
C8_WitnessStructural ==
    /\ Returns("traceWorkflow")
    /\ callArgs.componentId = "t1"
    /\ callArgs.schema.edges = <<Edge("t1", "t2", "imports"), Edge("t2", "t3", "persists")>>
    /\ callRet.value.nodeIds = <<"t1">>

(***************************************************************************)
(* C9: buildGraph returns exactly one component node per document          *)
(* component whose kind is active and none for inactive kinds, and every   *)
(* returned edge has both its source and its target among the returned     *)
(* component nodes.                                                        *)
(***************************************************************************)
C9_KindFilter ==
    Returns("buildGraph") =>
        LET nodes == SelectSeq(callRet.value.nodes, LAMBDA n : n.type # "clusterLabel")
            active == {i \in DOMAIN callArgs.data.components :
                          callArgs.data.components[i].kind \in callArgs.activeKinds}
            nodeIds == {nodes[i].id : i \in DOMAIN nodes}
        IN /\ \A c \in active :
                Cardinality({i \in DOMAIN nodes :
                                nodes[i].data.component = callArgs.data.components[c]}) = 1
           /\ Len(nodes) = Cardinality(active)
           /\ \A i \in DOMAIN nodes :
                /\ nodes[i].id = nodes[i].data.component.id
                /\ nodes[i].type = nodes[i].data.component.kind
                /\ nodes[i].type \in callArgs.activeKinds
           /\ \A i \in DOMAIN callRet.value.edges :
                /\ callRet.value.edges[i].source \in nodeIds
                /\ callRet.value.edges[i].target \in nodeIds

\* with models switched off, the edge into the model and the edge to an id of no
\* component are both dropped, and the two other components are the nodes
C9_Witness ==
    /\ Returns("buildGraph")
    /\ callArgs.activeKinds = {"transport", "service", "transform"}
    /\ callArgs.data.edges = <<Edge("c2", "c3", "imports"), Edge("c1", "c2", "calls")>>
    /\ Len(callRet.value.nodes) = 2
    /\ Len(callRet.value.edges) = 1

\* an edge to the id of no component is dropped although its source is shown
C9_WitnessAbsent ==
    /\ Returns("buildGraph")
    /\ callArgs.activeKinds = {"model"}
    /\ callArgs.data.edges = <<Edge("c3", "c9", "imports")>>
    /\ Len(callRet.value.nodes) = 1
    /\ callRet.value.edges = <<>>

\* the stroke colour of a label set, by the priority payload > calls > dispatches > flow
StrokeOf(labels) ==
    IF labels \cap {"consumes", "produces"} # {} THEN "#f472b6"
    ELSE IF "calls" \in labels THEN "#22c55e"
    ELSE IF "dispatches" \in labels THEN "#f59e0b"
    ELSE IF labels \cap {"handles", "persists", "transforms"} # {} THEN "#06b6d4"
    ELSE "#6b7280"

(***************************************************************************)
(* C10: the stroke colour buildGraph gives a merged edge follows the       *)
(* priority payload > calls > dispatches > other flow > structural over    *)
(* the edge's whole label set, and the edge is animated iff it carries at  *)
(* least one flow label.                                                   *)
(***************************************************************************)
C10_EdgeColour ==
    Returns("buildGraph") =>
        \A i \in DOMAIN callRet.value.edges :
            LET e == callRet.value.edges[i]
                labels == LabelsOfPair(callArgs.data.edges, e.source, e.target)
            IN /\ e.style.stroke = StrokeOf(labels)
               /\ e.animated <=> (labels \cap SevenFlowLabels # {})

\* an edge that merges 'dispatches' and then 'calls' is green and animated
C10_Witness ==
    /\ Returns("buildGraph")
    /\ callArgs.data.edges = <<Edge("c1", "c2", "dispatches"), Edge("c1", "c2", "calls")>>
    /\ Len(callRet.value.edges) = 1
    /\ callRet.value.edges[1].style.stroke = "#22c55e"
    /\ callRet.value.edges[1].animated

\* the edges the merge loop of a function goes through for a call's arguments
MergeLoopInput(args) ==
    IF args.fn = "buildGraph"
    THEN VisibleEdges(args.data.edges,
                      IdsOf(FilterByKind(args.data.components, args.activeKinds)))
    ELSE LET flowEdges == FlowEdges(args.data.edges)
         IN VisibleEdges(flowEdges,
                IdsOf(SelectSeq(args.data.components,
                         LAMBDA c : c.kind \in args.activeKinds
                                    /\ c.id \in EndpointIds(flowEdges))))

(***************************************************************************)
(* C11: the payload_type of a merged edge is the payload_type of the first *)
(* raw edge, in input order, of its (from_id, to_id) group that provides   *)
(* one; later raw edges of the group never overwrite it, and the merged    *)
(* edge has none iff no raw edge of the group provides one.  The returned  *)
(* edge shows that type, in brackets after its labels.                     *)
(***************************************************************************)
C11_FirstPayloadType ==
    callRet.done =>
        LET raw == MergeLoopInput(callArgs)
            merged == MergeEdges(raw)
            out == callRet.value.edges
        IN /\ \A i \in DOMAIN merged :
                LET first == FirstPayloadOfPair(raw, merged[i].from_id, merged[i].to_id)
                IN IF first = Undefined
                   THEN ~Truthy(merged[i].payload_type)
                   ELSE merged[i].payload_type = first
           /\ Len(out) = Len(merged)
           /\ \A i \in DOMAIN out :
                LET first == FirstPayloadOfPair(raw, out[i].source, out[i].target)
                    L == LabelsInFirstOccurrenceOrder(raw, out[i].source, out[i].target)
                IN out[i].label =
                     IF first = Undefined
                     THEN (IF L = <<>> THEN Undefined ELSE Join(L, ", "))
                     ELSE Join(L, ", ") \o " [" \o first \o "]"

\* the pair's first raw edge has no payload type, the second has 'Order', the
\* third 'User': the edge shows 'Order'
C11_Witness ==
    /\ Returns("buildGraph")
    /\ callArgs.data.edges
         = <<EdgeWith("c1", "c2", "imports", ""),
             EdgeWith("c1", "c2", "produces", "Order"),
             EdgeWith("c1", "c2", "imports", "User")>>
    /\ Len(callRet.value.edges) = 1
    /\ callRet.value.edges[1].label = "imports, produces [Order]"

\* a merged edge written back as raw edges: one raw edge per label, the payload
\* type on the first
RawOfMerged(m) ==
    IF m.labels = <<>>
    THEN <<EdgeWith(m.from_id, m.to_id, Undefined, m.payload_type)>>
    ELSE [k \in DOMAIN m.labels |->
            EdgeWith(m.from_id, m.to_id, m.labels[k],
                     IF k = 1 THEN m.payload_type ELSE Undefined)]

RECURSIVE RawOfMergedAll(_)
RawOfMergedAll(merged) ==
    IF merged = <<>> THEN <<>>
    ELSE RawOfMerged(Head(merged)) \o RawOfMergedAll(Tail(merged))

(***************************************************************************)
(* C12: edge merging is idempotent.  The merged edges of a call, written   *)
(* back as raw edges and merged again, are the same merged edges in the    *)
(* same order, with the same labels and payload types; and buildGraph of   *)
(* the document whose edges are those returns the same edges.              *)
(***************************************************************************)
C12_MergeIdempotent ==
    Returns("buildGraph") =>
        LET merged == MergeEdges(MergeLoopInput(callArgs))
            again == RawOfMergedAll(merged)
        IN /\ MergeEdges(again) = merged
           /\ BuildGraph([callArgs.data EXCEPT !.edges = again], callArgs.activeKinds).edges
                = callRet.value.edges

\* two pairs were merged, one of them from two raw edges with different labels
C12_Witness ==
    /\ Returns("buildGraph")
    /\ callArgs.data.edges
         = <<EdgeWith("c1", "c2", "imports", Undefined),
             EdgeWith("c2", "c1", "produces", "Order"),
             EdgeWith("c1", "c2", "produces", "User")>>
    /\ Len(callRet.value.edges) = 2

\* the positions of the '/' characters of a string
SlashesOf(cs) == {i \in DOMAIN cs : cs[i] = "/"}

\* the path segments of a string: the stretches between consecutive '/', as
\* pairs <<first, last>> of positions, in order
SegmentBounds(cs) ==
    LET cuts == SlashesOf(cs) \cup {0, Len(cs) + 1}
    IN {<<p[1] + 1, p[2] - 1>> :
           p \in {q \in cuts \X cuts :
                     q[1] < q[2] /\ \A d \in cuts : ~(q[1] < d /\ d < q[2])}}

\* a segment that is non-empty and not a parameter placeholder
IsUsableSegment(cs, seg) ==
    /\ seg[1] <= seg[2]
    /\ cs[seg[1]] \notin {"{", ":"}

\* rule 1: the first usable segment of a transport's http_path, capitalised
RuleOneApplies(comp) ==
    /\ comp.kind = "transport"
    /\ comp.http_path # NullStr
    /\ \E seg \in SegmentBounds(comp.http_path) : IsUsableSegment(comp.http_path, seg)

RuleOneLabel(comp) ==
    LET usable == {seg \in SegmentBounds(comp.http_path) : IsUsableSegment(comp.http_path, seg)}
        first == CHOOSE seg \in usable : \A other \in usable : seg[1] <= other[1]
        text == SubSeq(comp.http_path, first[1], first[2])
    IN [text EXCEPT ![1] = ToUpperCase(@)]

\* rule 2: the leading capitalised word of a model, transform or service
RuleTwoApplies(comp) ==
    /\ comp.kind \in {"model", "transform", "service"}
    /\ Len(comp.name) >= 2
    /\ IsUpper(comp.name[1])
    /\ IsLower(comp.name[2])

RuleTwoLabel(comp) ==
    LET ends == {k \in 2..Len(comp.name) : \A j \in 2..k : IsLower(comp.name[j])}
    IN SubSeq(comp.name, 1, CHOOSE k \in ends : \A j \in ends : j <= k)

\* rule 3: the name of the directory that holds the source file
RuleThreeLabel(comp) ==
    LET file == comp.source.file
        last == CHOOSE i \in SlashesOf(file) : \A j \in SlashesOf(file) : j <= i
        before == {j \in SlashesOf(file) \cup {0} : j < last}
        prev == CHOOSE i \in before : \A j \in before : j <= i
    IN SubSeq(file, prev + 1, last - 1)

\* the label of a component before folding, by the first rule that applies
\* (a source file in no directory leaves "Other")
FirstRuleLabel(comp) ==
    IF RuleOneApplies(comp) THEN RuleOneLabel(comp)
    ELSE IF RuleTwoApplies(comp) THEN RuleTwoLabel(comp)
    ELSE IF SlashesOf(comp.source.file) # {} THEN RuleThreeLabel(comp)
    ELSE <<"O", "t", "h", "e", "r">>

(***************************************************************************)
(* C13: before folding, classifyComponents labels each component by the    *)
(* first rule that applies: (1) a transport with an http_path gets its     *)
(* first path segment that is non-empty and not a placeholder, first       *)
(* letter upper-cased; (2) otherwise a model, transform or service whose   *)
(* name starts with an uppercase letter followed by a lowercase letter     *)
(* gets that leading capitalised word; (3) otherwise the parent directory  *)
(* name of its source file.  A transport without a usable path segment     *)
(* never gets a name-derived label.  The returned map holds that label     *)
(* where at least 3 components share it, and "Other" elsewhere.            *)
(***************************************************************************)
C13_FirstRuleLabels ==
    Returns("classifyComponents") =>
        LET comps == callArgs.components
            before == LabelAll(<<>>, comps)
            sharing(i) == {j \in DOMAIN comps : FirstRuleLabel(comps[j]) = FirstRuleLabel(comps[i])}
        IN /\ Len(before) = Len(comps)
           /\ \A i \in DOMAIN comps :
                /\ before[i] = [key |-> comps[i].id, value |-> FirstRuleLabel(comps[i])]
                /\ callRet.value[i].value =
                     IF Cardinality(sharing(i)) >= 3
                     THEN FirstRuleLabel(comps[i])
                     ELSE <<"O", "t", "h", "e", "r">>

\* three transports named 'Ux' whose only path segment is a placeholder are
\* labelled by their directory 'a', next to a model labelled by its name
C13_Witness ==
    /\ Returns("classifyComponents")
    /\ Len(callArgs.components) = 4
    /\ \A i \in 1..3 :
          /\ callArgs.components[i].kind = "transport"
          /\ callArgs.components[i].name = <<"U", "x">>
          /\ callArgs.components[i].http_path = <<"/", "{", "i", "}">>
          /\ callRet.value[i].value = <<"a">>
    /\ callArgs.components[4].name = <<"U", "x", "Y">>
    /\ LabelAll(<<>>, callArgs.components)[4].value = <<"U", "x">>

(***************************************************************************)
(* C14: when all degrees are the same (zero variance), detectHubs          *)
(* classifies every component, those of non-zero degree included, as       *)
(* 'normal'.                                                               *)
(***************************************************************************)
C14_ZeroVarianceAllNormal ==
    Returns("detectHubs") =>
        LET ids == DegreeIds(callArgs.components, callArgs.edges)
        IN (\A a, b \in ids : EndsAt(callArgs.edges, a) = EndsAt(callArgs.edges, b))
              => \A i \in DOMAIN callRet.value : callRet.value[i].value.tier = "normal"

\* h1 -> h2 and h2 -> h1 between the only two components: both have degree 2
C14_Witness ==
    /\ Returns("detectHubs")
    /\ Len(callArgs.components) = 2
    /\ callArgs.edges = <<Edge("h1", "h2", Undefined), Edge("h2", "h1", Undefined)>>
    /\ Len(callRet.value) = 2
    /\ \A i \in 1..2 : callRet.value[i].value = [tier |-> "normal", degree |-> 2]

C16_SearchSelectShowsComponent ==
    [][/\ SearchBarShown
       /\ \A component \in Range(GraphComponents) :
             (hook.viewMode = "flow" /\ HandleSearchSelect(component))
                => hook'.viewMode = IF component.id \in FlowNodeIdSet THEN "flow" ELSE "graph"]_vars

(***************************************************************************)
(* C17: for every workflow of the loaded document, steps[i].order = i for  *)
(* all i (counting from 0) and the first step has step_type 'entry'; in    *)
(* particular the node ids 'wf-<order>' WorkflowView derives from the      *)
(* steps are pairwise distinct.                                            *)
(***************************************************************************)
C17_WorkflowStepsNumbered ==
    \A w \in Range(Workflows) :
        /\ \A i \in DOMAIN w.steps : w.steps[i].order = i - 1
        /\ w.steps[1].step_type = "entry"
        /\ \A i, j \in DOMAIN w.steps :
              WorkflowViewNodeIds(w)[i] = WorkflowViewNodeIds(w)[j] => i = j

\* the ordered pairs the edges of a sequence of returned edges join
PairsOf(out) == {<<out[i].source, out[i].target>> : i \in DOMAIN out}

\* the ids of the document's components of an active kind
ActiveIds ==
    {hook.schema.components[i].id :
        i \in {j \in DOMAIN hook.schema.components :
                  hook.schema.components[j].kind \in hook.activeKinds}}

(***************************************************************************)
(* C18: an edge is treated as a flow edge iff its label is one of exactly  *)
(* the seven labels handles, persists, transforms, consumes, produces,     *)
(* calls, dispatches, in all places alike: buildGraph animates exactly the *)
(* edges that carry one, buildFlowGraph includes exactly the edges that    *)
(* carry one, and traceWorkflow, in either copy of the hook, traverses     *)
(* exactly those.                                                          *)
(***************************************************************************)
C18_SevenFlowLabelsEverywhere ==
    ~IsNoSchema(hook.schema) =>
        LET raw == hook.schema.edges
            isFlow(from, to) == LabelsOfPair(raw, from, to) \cap SevenFlowLabels # {}
        IN /\ \A i \in DOMAIN GraphMemo.edges :
                GraphMemo.edges[i].animated
                    <=> isFlow(GraphMemo.edges[i].source, GraphMemo.edges[i].target)
           /\ PairsOf(FlowMemo.edges)
                = {<<raw[i].from_id, raw[i].to_id>> :
                      i \in {j \in DOMAIN raw : /\ raw[j].label \in SevenFlowLabels
                                                /\ raw[j].from_id \in ActiveIds
                                                /\ raw[j].to_id \in ActiveIds}}
           /\ \A i \in DOMAIN hook.schema.components :
                LET id == hook.schema.components[i].id
                IN /\ Range(TraceWorkflow(hook.schema, id).nodeIds) = FlowReachable(raw, id)
                   /\ Range(TraceWorkflow_part_001(hook.schema, id).nodeIds)
                        = FlowReachable(raw, id)
           /\ HighlightedNodeIds # Null
                => Range(HighlightedNodeIds) = FlowReachable(raw, hook.selectedNode.id)

----------------------------------------------------------------------------
(* C19: the cluster grid layout and the threshold that selects it *)

\* the cluster headers of a list of nodes: label, member count and row
HeadersOf(nodes) ==
    {[label |-> nodes[i].data.label, count |-> nodes[i].data.count,
      y |-> nodes[i].position.y] :
        i \in {j \in DOMAIN nodes : nodes[j].type = "clusterLabel"}}

\* the cells of a clusterGridLayout call: one per component, where it was placed
CellsOfLayout ==
    {[id |-> c.id,
      cluster |-> MapGetOr(callArgs.clusterMap, c.id, OtherCluster),
      degree |-> HubDegree(callArgs.hubMap, c.id),
      x |-> MapGetOr(callRet.value.positions, c.id, [x |-> -1, y |-> -1]).x,
      y |-> MapGetOr(callRet.value.positions, c.id, [x |-> -1, y |-> -1]).y] :
        c \in Range(callArgs.components)}

\* the cells of a buildGraph result: one per component node
CellsOfGraph ==
    LET nodes == callRet.value.nodes
    IN {[id |-> nodes[i].id, cluster |-> nodes[i].data.cluster,
         degree |-> nodes[i].data.degree,
         x |-> nodes[i].position.x, y |-> nodes[i].position.y] :
           i \in {j \in DOMAIN nodes : nodes[j].type # "clusterLabel"}}

\* a is drawn before b: on a higher row, or further left on the same row
DrawnBefore(a, b) == a.y < b.y \/ (a.y = b.y /\ a.x < b.x)

\* headers run top to bottom by member count with "Other" last; each cluster's
\* cells lie under its own header, hubs first
GridOrdered(headers, cells) ==
    /\ \A h1, h2 \in headers :
          h1.y < h2.y => /\ h1.label # OtherCluster
                         /\ h2.label = OtherCluster \/ h1.count >= h2.count
    /\ \A h1, h2 \in headers : h1 # h2 => h1.y # h2.y /\ h1.label # h2.label
    /\ \A c \in cells :
          \E h \in headers :
             /\ h.label = c.cluster
             /\ h.count = Cardinality({d \in cells : d.cluster = c.cluster})
             /\ h.y < c.y
             /\ \A h2 \in headers : h2.y > h.y => c.y < h2.y
    /\ \A h \in headers : \E c \in cells : c.cluster = h.label
    /\ \A a, b \in cells :
          /\ a # b => <<a.x, a.y>> # <<b.x, b.y>>
          /\ a.cluster = b.cluster /\ DrawnBefore(a, b) => a.degree >= b.degree

\* the number of distinct (from, to) pairs among the edges between the components
MergedEdgeCount(data) ==
    Cardinality({<<data.edges[i].from_id, data.edges[i].to_id>> :
                   i \in {j \in DOMAIN data.edges :
                            /\ data.edges[j].from_id \in IdsOf(data.components)
                            /\ data.edges[j].to_id \in IdsOf(data.components)}})

\* C19: clusterGridLayout puts the clusters top to bottom by decreasing member
\* count with "Other" last and, inside each cluster, the components in
\* non-increasing degree order; buildGraph (all kinds active) uses that layout
\* when there are more than 2000 merged edges and produces no cluster header
\* node when there are 2000 or fewer.
C19_GridLayoutOrder ==
    /\ Returns("clusterGridLayout") =>
          GridOrdered(HeadersOf(callRet.value.headerNodes), CellsOfLayout)
    /\ Returns("buildGraph") =>
          IF MergedEdgeCount(callArgs.data) > 2000
          THEN /\ HeadersOf(callRet.value.nodes) # {}
               /\ GridOrdered(HeadersOf(callRet.value.nodes), CellsOfGraph)
          ELSE HeadersOf(callRet.value.nodes) = {}

\* buildGraph has laid out a document of more than 2000 merged edges: "Other"
\* and two clusters of different sizes have headers, and some cluster lists a
\* component of lower degree before one of higher degree
C19_Witness ==
    /\ Returns("buildGraph")
    /\ MergedEdgeCount(callArgs.data) > 2000
    /\ LET headers == HeadersOf(callRet.value.nodes)
           nodes == callRet.value.nodes
       IN /\ \E h \in headers : h.label = OtherCluster
          /\ \E h1, h2 \in headers :
                h1.label # OtherCluster /\ h2.label # OtherCluster /\ h1.count > h2.count
          /\ \E i, j \in DOMAIN nodes :
                /\ i < j
                /\ nodes[i].type # "clusterLabel" /\ nodes[j].type # "clusterLabel"
                /\ nodes[i].data.cluster = nodes[j].data.cluster
                /\ nodes[i].data.degree < nodes[j].data.degree

----------------------------------------------------------------------------
(* C20: the empty document *)

\* C20: for an empty input (no components, no edges, no workflows) every stage
\* returns an empty result and raises no error: classifyComponents and
\* detectHubs return empty maps, buildGraph and buildFlowGraph return empty
\* node and edge lists, and the loader accepts the document.
C20_EmptyInputEmptyResults ==
    /\ Returns("classifyComponents") /\ callArgs.components = <<>>
          => callRet.value = <<>>
    /\ Returns("detectHubs") /\ callArgs.components = <<>> /\ callArgs.edges = <<>>
          => callRet.value = <<>>
    /\ (Returns("buildGraph") \/ Returns("buildFlowGraph")) /\ callArgs.data = EmptyDocument
          => callRet.value.nodes = <<>> /\ callRet.value.edges = <<>>
    /\ Returns("validate") /\ callArgs.data = EmptyJsDocument
          => ~callRet.value.threw /\ callRet.value.value = callArgs.data

\* a stage has returned from the empty input
C20_Witness ==
    \/ Returns("validate") /\ callArgs.data = EmptyJsDocument
    \/ Returns("classifyComponents") /\ callArgs.components = <<>>
    \/ Returns("detectHubs") /\ callArgs.components = <<>> /\ callArgs.edges = <<>>
    \/ Returns("buildGraph") /\ callArgs.data = EmptyDocument
    \/ Returns("buildFlowGraph") /\ callArgs.data = EmptyDocument

----------------------------------------------------------------------------
(* C21: revisited nodes in traceWorkflow *)

NoDuplicates(ids) == \A i, j \in DOMAIN ids : ids[i] = ids[j] => i = j

\* the ids `flow-<i>` of the flow edges (numbered from 0 among the flow edges)
\* with an end in nodes
FlowEdgeIdsTouching(edges, nodes) ==
    LET flow == SelectSeq(edges, LAMBDA e : e.label \in SevenFlowLabels)
    IN {"flow-" \o ToString(i - 1) :
          i \in {j \in DOMAIN flow : flow[j].from_id \in nodes \/ flow[j].to_id \in nodes}}

\* C21: in traceWorkflow each node id is enqueued at most once (the ids taken
\* from the queue followed by those waiting in it are the discovered ids, each
\* once), and the returned edgeIds are exactly the flow edges with at least one
\* end in the returned nodeIds, so an edge that leads to an already-discovered
\* node is in the set although it adds no node.
C21_RevisitAddsEdgeOnly ==
    /\ TraceRunning =>
          /\ callRet.shifted \o callRet.st.queue = callRet.st.nodeIds
          /\ NoDuplicates(callRet.st.nodeIds)
    /\ Returns("traceWorkflow") =>
          /\ NoDuplicates(callRet.value.nodeIds)
          /\ NoDuplicates(callRet.value.edgeIds)
          /\ Range(callRet.value.edgeIds)
               = FlowEdgeIdsTouching(callArgs.schema.edges, Range(callRet.value.nodeIds))

\* a cycle with a parallel edge and a self-loop: t2 is reached from t1 by the
\* first edge, the second edge leads back to t1 and the third from t1 to itself
C21_Witness ==
    /\ Returns("traceWorkflow")
    /\ callArgs.componentId = "t1"
    /\ callArgs.schema.edges
         = <<Edge("t1", "t2", "persists"), Edge("t2", "t1", "persists"),
             Edge("t1", "t1", "persists")>>
    /\ callRet.value.nodeIds = <<"t1", "t2">>
    /\ Range(callRet.value.edgeIds) = {"flow-0", "flow-1", "flow-2"}

----------------------------------------------------------------------------
(* C30: termination of traceWorkflow *)

\* the ids an edge list and a start can put in the queue
IdsOfTrace == {callArgs.componentId}
                 \cup {callArgs.schema.edges[i].from_id : i \in DOMAIN callArgs.schema.edges}
                 \cup {callArgs.schema.edges[i].to_id : i \in DOMAIN callArgs.schema.edges}

\* C30: traceWorkflow terminates for every finite edge list, cycles, self-loops
\* and parallel edges included: no more ids are ever enqueued than there are
\* ids, and the call returns.
C30_TraceTerminates ==
    /\ [](TraceRunning =>
            Len(callRet.shifted) + Len(callRet.st.queue) <= Cardinality(IdsOfTrace))
    /\ <>callRet.done

\* the call has returned from a cycle t1 -> t2 -> t3 -> t2 with a self-loop at
\* t3, started in the middle
C30_Witness ==
    /\ Returns("traceWorkflow")
    /\ callArgs.componentId = "t2"
    /\ callArgs.schema.edges
         = <<Edge("t2", "t3", "persists"), Edge("t3", "t2", "persists"),
             Edge("t3", "t3", "persists")>>
    /\ Range(callRet.value.nodeIds) = {"t2", "t3"}

----------------------------------------------------------------------------
(* C22: the order of the lists of a document *)

\* a Map as the set of its entries
EntriesOf(m) == {<<m[i].key, m[i].value>> : i \in DOMAIN m}

\* the merged edges as ordered pairs with their label sets
PairsWithLabelSets(uniqueEdges) ==
    {<<uniqueEdges[i].from_id, uniqueEdges[i].to_id, Range(uniqueEdges[i].labels)>> :
        i \in DOMAIN uniqueEdges}

\* the edges of a graph as ordered pairs
SourceTargetPairs(graph) ==
    {<<graph.edges[i].source, graph.edges[i].target>> : i \in DOMAIN graph.edges}

\* C22: for two documents with the same components and the same edges listed in
\* different orders, classifyComponents gives every component the same cluster
\* label, detectHubs the same degree and tier, and the merged edges of
\* buildGraph are the same ordered pairs with the same label sets.
C22_OrderIndependent ==
    Returns("analytics") =>
        LET a == callRet.value.first
            b == callRet.value.second
        IN /\ EntriesOf(a.clusterMap) = EntriesOf(b.clusterMap)
           /\ EntriesOf(a.hubMap) = EntriesOf(b.hubMap)
           /\ PairsWithLabelSets(a.uniqueEdges) = PairsWithLabelSets(b.uniqueEdges)
           /\ SourceTargetPairs(a.graph) = SourceTargetPairs(b.graph)
           /\ \A i \in DOMAIN a.graph.nodes : \E j \in DOMAIN b.graph.nodes :
                 /\ a.graph.nodes[i].id = b.graph.nodes[j].id
                 /\ a.graph.nodes[i].data = b.graph.nodes[j].data

\* both lists are in another order in the second document: the maps and the
\* merged edges are listed differently, the pair o1 -> o2 has its two labels in
\* the other order, a cluster was folded into "Other" and o1 is above "normal"
C22_Witness ==
    /\ Returns("analytics")
    /\ callArgs.reverseComponents
    /\ LET a == callRet.value.first
           b == callRet.value.second
       IN /\ a.clusterMap # b.clusterMap
          /\ a.hubMap # b.hubMap
          /\ a.uniqueEdges # b.uniqueEdges
          /\ \E i \in DOMAIN a.uniqueEdges, j \in DOMAIN b.uniqueEdges :
                /\ a.uniqueEdges[i].key = b.uniqueEdges[j].key
                /\ Len(a.uniqueEdges[i].labels) = 2
                /\ a.uniqueEdges[i].labels # b.uniqueEdges[j].labels
          /\ MapGetOr(a.clusterMap, "o4", NullStr) = OtherCluster
          /\ MapGetOr(a.clusterMap, "o1", NullStr) = <<"U", "s">>
          /\ MapGetOr(a.hubMap, "o1", Null).tier # "normal"

----------------------------------------------------------------------------
\* the order normal < medium < high
TierRank(tier) == CASE tier = "normal" -> 0 [] tier = "medium" -> 1 [] tier = "high" -> 2

(***************************************************************************)
(* C29: the tiers of one detectHubs call are monotone in degree: for any   *)
(* two components a and b of the call, degree(a) >= degree(b) implies      *)
(* tier(a) >= tier(b) in the order normal < medium < high; in particular   *)
(* components of equal degree get equal tiers.                             *)
(***************************************************************************)
C29_TiersMonotoneInDegree ==
    Returns("detectHubs") =>
        LET hubMap == callRet.value
        IN \A a, b \in DOMAIN hubMap :
              /\ hubMap[a].value.degree >= hubMap[b].value.degree
                    => TierRank(hubMap[a].value.tier) >= TierRank(hubMap[b].value.tier)
              /\ hubMap[a].value.degree = hubMap[b].value.degree
                    => hubMap[a].value.tier = hubMap[b].value.tier

\* one call with a high, a medium and a normal component of decreasing
\* degree, and two different components of the same degree
C29_Witness ==
    /\ Returns("detectHubs")
    /\ LET hubMap == callRet.value
       IN /\ \E a, b, c \in DOMAIN hubMap :
                /\ hubMap[a].value.degree > hubMap[b].value.degree
                /\ hubMap[b].value.degree > hubMap[c].value.degree
                /\ hubMap[a].value.tier = "high"
                /\ hubMap[b].value.tier = "medium"
                /\ hubMap[c].value.tier = "normal"
          /\ \E a, b \in DOMAIN hubMap :
                a # b /\ hubMap[a].value.degree = hubMap[b].value.degree

----------------------------------------------------------------------------
\* the flow edges of the loaded document with an end at id
FlowEdgesAt(id) ==
    {i \in DOMAIN hook.schema.edges :
        /\ Truthy(hook.schema.edges[i].label)
        /\ hook.schema.edges[i].label \in FLOW_LABELS
        /\ id \in {hook.schema.edges[i].from_id, hook.schema.edges[i].to_id}}

(***************************************************************************)
(* C25: highlightedNodeIds is non-null only when the selected node is a    *)
(* transport whose flow trace contains at least one other component of the *)
(* document, and then the set contains the selected transport's id; it is  *)
(* null when a non-transport is selected, and when the selected transport  *)
(* has no flow edges or only flow self-loops.                              *)
(***************************************************************************)
C25_HighlightNeedsAnotherComponent ==
    hook.selectedNode # Null =>
        LET selected == hook.selectedNode
        IN /\ HighlightedNodeIds # Null =>
                /\ selected.kind = "transport"
                /\ Includes(HighlightedNodeIds, selected.id)
                /\ \E c \in Range(hook.schema.components) :
                      c.id # selected.id /\ Includes(HighlightedNodeIds, c.id)
           /\ selected.kind # "transport" => HighlightedNodeIds = Null
           /\ (/\ selected.kind = "transport"
               /\ \A i \in FlowEdgesAt(selected.id) :
                     hook.schema.edges[i].from_id = hook.schema.edges[i].to_id)
                 => HighlightedNodeIds = Null

\* the same with "another id" for "another component": holds
C25_HighlightNeedsAnotherId ==
    hook.selectedNode # Null =>
        LET selected == hook.selectedNode
        IN /\ HighlightedNodeIds # Null =>
                /\ selected.kind = "transport"
                /\ Includes(HighlightedNodeIds, selected.id)
                /\ \E id \in Range(HighlightedNodeIds) : id # selected.id
           /\ selected.kind # "transport" => HighlightedNodeIds = Null
           /\ (/\ selected.kind = "transport"
               /\ \A i \in FlowEdgesAt(selected.id) :
                     hook.schema.edges[i].from_id = hook.schema.edges[i].to_id)
                 => HighlightedNodeIds = Null

----------------------------------------------------------------------------
(***************************************************************************)
(* C27: loadSchema(data), from any state of the viewer, sets schema to     *)
(* data, selectedNode to null, searchQuery to the empty string,            *)
(* searchResults to the empty list, selectedWorkflow to null and viewMode  *)
(* to 'graph', and leaves activeKinds as it was.                           *)
(***************************************************************************)
C27_LoadSchemaResets ==
    [][\A data \in ViewerDocs :
          HandleLoad(data) =>
              /\ hook'.schema = data
              /\ hook'.selectedNode = Null
              /\ hook'.searchQuery = ""
              /\ hook'.searchResults = <<>>
              /\ hook'.selectedWorkflow = Null
              /\ hook'.viewMode = "graph"
              /\ hook'.activeKinds = hook.activeKinds]_vars

\* a document loaded over a viewer that had kinds switched off and a search
\* result chosen: the focus the choice set is still there, the selection it
\* set is gone, the kinds are still off
C27_Witness ==
    /\ ~IsNoSchema(hook.schema)
    /\ ToString(app.focusNodeId) # ToString(Null)
    /\ hook.selectedNode = Null
    /\ hook.searchQuery = ""
    /\ hook.searchResults = <<>>
    /\ hook.selectedWorkflow = Null
    /\ hook.viewMode = "graph"
    /\ hook.activeKinds = Range(ALL_KINDS) \ {"model", "transport"}

----------------------------------------------------------------------------
\* the calls of onLoad and onError that the handler of drop n has made
LoadCallsOfDrop(n) ==
    SelectSeq(Zone.calls, LAMBDA c : c.drop = n /\ c.callback \in {"onLoad", "onError"})

\* the handler of drop n still waits for its file
InFlight(n) == \E read \in Zone.reads : read.drop = n

\* the name is some prefix followed by ".json"
IsJsonName(name) == \E k \in 0..Len(name) : name = SubSeq(name, 1, k) \o DotJson

\* the one call the claim gives a dropped file
CallClaimed(file) ==
    IF ~IsJsonName(file.name) THEN [callback |-> "onError", arg |-> WrongExtensionMessage]
    ELSE IF file.content.kind = "unreadable"
         THEN [callback |-> "onError", arg |-> ReadErrorMessage]
    ELSE IF file.content.kind = "text"
         THEN [callback |-> "onError", arg |-> SyntaxErrorMessage]
    ELSE IF HasRequiredArrays(file.content.value)
         THEN [callback |-> "onLoad", arg |-> file.content.value]
    ELSE [callback |-> "onError", arg |-> InvalidMessage]

(***************************************************************************)
(* C24: a file dropped on the drop zone results in exactly one call of     *)
(* onLoad or onError: onLoad with the validated document if the file name  *)
(* ends in ".json" and the file parses and validates, otherwise onError    *)
(* with "Please drop a .json file" for a wrong extension and with the      *)
(* exception's message for a read, parse or validation failure; onLoad is  *)
(* never called for an invalid file, and a drop without a file calls       *)
(* neither.  (No call while the file is being read, one once it is read,   *)
(* and every read ends.)                                                   *)
(***************************************************************************)
C24_DropCallsBackOnce ==
    /\ [](\A n \in DOMAIN Zone.dropped :
            LET file == Zone.dropped[n]
                made == LoadCallsOfDrop(n)
            IN IF ~file.present \/ InFlight(n) THEN made = <<>>
               ELSE /\ Len(made) = 1
                    /\ made[1].callback = CallClaimed(file).callback
                    /\ made[1].arg = CallClaimed(file).arg)
    /\ \A n \in 1..MaxDrops : InFlight(n) ~> ~InFlight(n)

\* two drops, both done with: a valid document handed to onLoad, then a file
\* that is no JSON reported to onError
C24_Witness ==
    /\ Len(Zone.dropped) = 2
    /\ Zone.reads = {}
    /\ Zone.dropped[1].present /\ Zone.dropped[2].present
    /\ LoadCallsOfDrop(1) = <<Call("onLoad", EmptyJsDocument, 1)>>
    /\ Len(LoadCallsOfDrop(2)) = 1
    /\ LoadCallsOfDrop(2)[1].callback = "onError"
    /\ LoadCallsOfDrop(2)[1].arg = SyntaxErrorMessage

----------------------------------------------------------------------------
\* the calls of onDragStateChange so far
DragReports == SelectSeq(Zone.calls, LAMBDA c : c.callback = "onDragStateChange")

\* the dragging state last reported, false before the first report
LastReported == IF DragReports = <<>> THEN FALSE ELSE DragReports[Len(DragReports)].arg

\* the calls of onDragStateChange(true) so far
ReportsOfTrue == Len(SelectSeq(DragReports, LAMBDA c : c.arg))

(***************************************************************************)
(* C26: after any sequence of dragenter, dragover, dragleave and drop      *)
(* events the dragging state last reported through onDragStateChange       *)
(* (false before any report) is true iff dragCounter is at least 1; true   *)
(* is reported only by a step that takes dragCounter from 0 to 1; and a    *)
(* drop leaves dragCounter at 0 and the reported state false.              *)
(***************************************************************************)
C26_ReportedIffDragging ==
    /\ [](LastReported <=> Zone.dragCounter >= 1)
    /\ [][ReportsOfTrue' # ReportsOfTrue
            => Zone.dragCounter = 0 /\ Zone'.dragCounter = 1]_vars
    /\ [][Len(Zone'.dropped) # Len(Zone.dropped)
            => Zone'.dragCounter = 0 /\ ~LastReported']_vars

\* a second drag, two elements deep into the zone, after a drop
C26_Witness ==
    /\ Len(Zone.dropped) = 1
    /\ Zone.dragCounter = 2
    /\ LastReported

\* more leaves than enters: the counter is below 0 and nothing was reported
C26_WitnessBelowZero ==
    /\ Zone.dragCounter < 0
    /\ Zone.calls = <<>>

(***************************************************************************)
(* C28: once the cleanup function returned by setupDropZone has been       *)
(* called, none of onLoad, onError and onDragStateChange is called again,  *)
(* not even by a drop whose file was still being read when cleanup ran.    *)
(***************************************************************************)
C28_NoCallAfterCleanup ==
    [][~Zone.attached => Len(Zone'.calls) = Len(Zone.calls)]_vars

\* after cleanup no drag report is made and no new drop is handled
C28_NoDragCallAfterCleanup ==
    [][~Zone.attached => /\ DragReports' = DragReports
                         /\ Zone'.dropped = Zone.dropped
                         /\ Zone'.dragCounter = Zone.dragCounter]_vars

----------------------------------------------------------------------------
(***************************************************************************)
(* C23: the viewer treats the loaded document as a read-only snapshot:     *)
(* toggling kinds or the view mode leaves the document the hook holds as   *)
(* it was loaded, and after buildGraph, buildFlowGraph, classifyComponents,*)
(* detectHubs, clusterGridLayout and traceWorkflow the document's          *)
(* components and edges arrays have the contents and the order they had.   *)
(***************************************************************************)
C23_DocumentReadOnly ==
    /\ hook.schema = callArgs.data
    /\ callRet.done =>
          /\ callRet.value["data.components"] = callArgs.data.components
          /\ callRet.value["data.edges"] = callArgs.data.edges

\* a kind switched off, then the layout: it sorted the list of the cluster "Us" in
\* place, the hub o3 now first, and the document still has o1, o2, o3 in this order
C23_Witness ==
    /\ callRet.done
    /\ callArgs.fn = "clusterGridLayout"
    /\ hook.activeKinds # Range(ALL_KINDS)
    /\ ListOf(<<"U", "s">>) \in DOMAIN callRet.value
    /\ callRet.value[ListOf(<<"U", "s">>)] = <<callArgs.data.components[3],
                                               callArgs.data.components[1],
                                               callArgs.data.components[2]>>

\* buildGraph sorted its styled edges in place: the payload edge made of the
\* first raw edge is behind the edge made of the second
C23_WitnessEdgesSorted ==
    /\ callRet.done
    /\ callArgs.fn = "buildGraph"
    /\ Len(callRet.value["edges"]) = 2
    /\ callArgs.data.edges[1].label = "produces"
    /\ callArgs.data.edges[2].label = "calls"
    /\ callRet.value["edges"][2].source = callArgs.data.edges[1].from_id
    /\ callRet.value["edges"][2].target = callArgs.data.edges[1].to_id
    /\ callRet.value["edges"][1].source = callArgs.data.edges[2].from_id
    /\ callRet.value["edges"][1].target = callArgs.data.edges[2].to_id

====
